---- MODULE Spec2Model ----
(***************************************************************************)
(* Weather-data quality pipeline: missing-segment analysis, bounded        *)
(* imputation, 3-sigma outlier detection and the report aggregator.        *)
(*                                                                         *)
(* Floating-point values are modelled as exact rationals <<num, den>> with *)
(* den > 0 in lowest terms; NaN is <<0, 0>>.  A pandas Series is a TLA+    *)
(* sequence of such values, a DataFrame a record of its column names, its  *)
(* index and its columns' series.  A Python call's outcome is a record     *)
(* [kind |-> "return", value |-> v] or [kind |-> "raise", exc |-> name].   *)
(***************************************************************************)
EXTENDS Integers, Sequences, FiniteSets, TLC

VARIABLES
    pc,         \* position of the caller's script
    df,         \* the dataset handed to the imputation module
    column,     \* the target column name
    max_gap,    \* Optional[int]: <<>> is None, <<m>> is the integer m
    method,     \* the interpolation method name
    stats,      \* outcome of get_missing_stats(df, column)
    imputed,    \* outcome of linear_impute(df, column, max_gap, method)
    stats2,     \* outcome of get_missing_stats(result, column)
    skipped,    \* the gap lengths linear_impute printed as skipped
    op,         \* the imputation function a direct caller invoked ("" before the call)
    report_arg, \* the report flag handed to handle_missing_values
    gen,        \* the QualityReportGenerator instance (raw_df, cleaned_df, report)
    genOut,     \* outcome of the last call on the generator
    det,        \* the ThreeSigmaDetector instance (sigma_level, thresholds)
    detOut,     \* the last call on the detector: its name, argument and outcome
    data_series,\* the series of the fit-then-detect script
    baseline,   \* history: the series the stored thresholds should come from
    file_path,  \* the path handed to load_weather_data
    file,       \* what file_path names on disk: nothing, a directory or a file
    loaded,     \* outcome of load_weather_data(file_path)
    disk,       \* what the pipeline script finds next to itself, and the report it writes
    env,        \* the pipeline script's namespace: the names bound so far
    heap,       \* the DataFrame objects the script's names refer to, by object number
    console,    \* the stage results the pipeline script printed
    ended       \* how the pipeline script's run ended

imputeVars == <<df, column, max_gap, method, stats, imputed, stats2, skipped, op, report_arg>>
genVars    == <<gen, genOut>>
detVars    == <<det, detOut, data_series, baseline>>
loadVars   == <<file_path, file, loaded>>
pipeVars   == <<disk, env, heap, console, ended>>
vars == <<pc, imputeVars, genVars, detVars, loadVars, pipeVars>>

-----------------------------------------------------------------------------
(* Bounds of the model *)

MaxLen == 5     \* longest enumerated series
MaxGap == 2     \* largest enumerated max_gap

-----------------------------------------------------------------------------
(* Numbers *)

NaN == <<0, 0>>
IsNa(v) == v[2] = 0

Abs(x) == IF x < 0 THEN -x ELSE x

RECURSIVE Gcd(_, _)
Gcd(a, b) == IF b = 0 THEN a ELSE Gcd(b, a % b)

\* the rational n/d in canonical form; a zero denominator gives NaN
Rat(n, d) ==
    IF d = 0 THEN NaN
    ELSE LET g == Gcd(Abs(n), Abs(d))
             s == IF d < 0 THEN -1 ELSE 1
         IN  <<(s * n) \div g, (s * d) \div g>>

Num(i) == <<i, 1>>

RAdd(a, b) == IF IsNa(a) \/ IsNa(b) THEN NaN ELSE Rat(a[1] * b[2] + b[1] * a[2], a[2] * b[2])
RSub(a, b) == IF IsNa(a) \/ IsNa(b) THEN NaN ELSE Rat(a[1] * b[2] - b[1] * a[2], a[2] * b[2])
RMul(a, b) == IF IsNa(a) \/ IsNa(b) THEN NaN ELSE Rat(a[1] * b[1], a[2] * b[2])
RDiv(a, b) == IF IsNa(a) \/ IsNa(b) THEN NaN ELSE Rat(a[1] * b[2], a[2] * b[1])
\* comparisons with NaN are False
RLt(a, b) == ~IsNa(a) /\ ~IsNa(b) /\ a[1] * b[2] < b[1] * a[2]
RGt(a, b) == RLt(b, a)

\* f"{x:.2f}": two decimals, round-half-even, sign kept, "nan" for NaN
Format2f(x) ==
    IF IsNa(x) THEN "nan"
    ELSE LET a   == Abs(x[1]) * 100
             fl  == a \div x[2]
             rem == a % x[2]
             q   == IF 2 * rem > x[2] THEN fl + 1
                    ELSE IF 2 * rem = x[2] THEN fl + (fl % 2)
                    ELSE fl
             fp  == q % 100
         IN  (IF x[1] < 0 THEN "-" ELSE "") \o ToString(q \div 100) \o "."
                \o (IF fp < 10 THEN "0" ELSE "") \o ToString(fp)

\* f"{x:.2f}%"
FormatPct(x) == Format2f(x) \o "%"

-----------------------------------------------------------------------------
(* pandas Series and DataFrame *)

Returned(v) == [kind |-> "return", value |-> v]
Raised(e)   == [kind |-> "raise", exc |-> e]
NotCalled   == [kind |-> "none"]

isna(s) == [i \in 1..Len(s) |-> IsNa(s[i])]

\* Series.sum() of a boolean series
sum(mask) == Cardinality({i \in 1..Len(mask) : mask[i]})

\* Series.any() of a boolean series
any(mask) == \E i \in 1..Len(mask) : mask[i]

\* (mask != mask.shift()): the first position compares with NaN and is True
ne_shift(mask) == [i \in 1..Len(mask) |-> IF i = 1 THEN TRUE ELSE mask[i] # mask[i - 1]]

\* Series.cumsum() of a boolean series
cumsum(b) == [i \in 1..Len(b) |-> Cardinality({j \in 1..i : b[j]})]

\* mask.groupby(groups): the groups in ascending key order, each the
\* sub-series of mask at the positions carrying that key
groupby(mask, groups) ==
    LET K == IF Len(groups) = 0 THEN 0 ELSE groups[Len(groups)]
        Pos(g) == {i \in 1..Len(mask) : groups[i] = g}
        First(g) == CHOOSE i \in Pos(g) : \A j \in Pos(g) : i <= j
    IN  [g \in 1..K |-> [first |-> First(g),
                         group |-> [k \in 1..Cardinality(Pos(g)) |-> mask[First(g) + k - 1]]]]

\* the loop "for group_id, group in mask.groupby(groups): if group.any():
\* gap_lengths.append(group.sum())"
RECURSIVE gap_loop(_, _, _)
gap_loop(grouped, g, acc) ==
    IF g > Len(grouped) THEN acc
    ELSE gap_loop(grouped, g + 1,
                  IF any(grouped[g].group) THEN Append(acc, sum(grouped[g].group)) ELSE acc)

\* mutant: grouping by the mask itself merges all nulls into one group
gap_lengths_merged(mask) == IF any(mask) THEN <<sum(mask)>> ELSE <<>>

gap_lengths_of(mask) == gap_loop(groupby(mask, cumsum(ne_shift(mask))), 1, <<>>)

RECURSIVE SeqSum(_)
SeqSum(s) == IF s = <<>> THEN 0 ELSE Head(s) + SeqSum(Tail(s))

\* Python max() of a non-empty list
max(s) == CHOOSE m \in {s[i] : i \in 1..Len(s)} : \A i \in 1..Len(s) : s[i] <= m

\* np.mean of a non-empty list
np_mean(s) == Rat(SeqSum(s), Len(s))

HasColumn(d, c) == \E i \in 1..Len(d.columns) : d.columns[i] = c

\* len(df)
len(d) == d.nrows

\* the non-null values of a series
dropna(s) == SelectSeq(s, LAMBDA v : ~IsNa(v))

RECURSIVE RSum(_)
RSum(s) == IF s = <<>> THEN Num(0) ELSE RAdd(Head(s), RSum(Tail(s)))

\* Series.mean(): nulls skipped, NaN when no value is left
series_mean(s) ==
    LET v == dropna(s)
    IN  IF v = <<>> THEN NaN ELSE RDiv(RSum(v), Num(Len(v)))

\* mutant: the population variance (ddof = 0)
series_var_population(s) ==
    LET v  == dropna(s)
        m  == series_mean(s)
        sq == [i \in 1..Len(v) |-> RMul(RSub(v[i], m), RSub(v[i], m))]
    IN  IF Len(v) < 1 THEN NaN ELSE RDiv(RSum(sq), Num(Len(v)))

\* the square of Series.std(): the sample variance (ddof = 1) of the
\* non-null values, NaN when fewer than two are left
series_var(s) ==
    LET v  == dropna(s)
        m  == series_mean(s)
        sq == [i \in 1..Len(v) |-> RMul(RSub(v[i], m), RSub(v[i], m))]
    IN  IF Len(v) < 2 THEN NaN ELSE RDiv(RSum(sq), Num(Len(v) - 1))

-----------------------------------------------------------------------------
(* imputation: get_missing_stats *)

\* mutant: the count is a Python int, whose division by zero raises
int_true_divide(n, d) ==
    IF d = 0 THEN Raised("ZeroDivisionError") ELSE Returned(Rat(n, d))

\* line 160: Series.sum() is a numpy integer; dividing it by len(df) = 0
\* gives nan (0/0) with a RuntimeWarning, not an exception
np_true_divide(n, d) == Returned(Rat(n, d))

get_missing_stats(d, c) ==
    IF ~HasColumn(d, c) THEN Returned([error |-> "column does not exist"])
    ELSE
    LET missing_mask  == isna(d.data[c])
        total_missing == sum(missing_mask)
        division      == np_true_divide(total_missing, len(d))
        missing_rate  == division.value
    IN  IF division.kind = "raise" THEN division
        ELSE IF total_missing > 0
        THEN LET gap_lengths == gap_lengths_of(missing_mask)
             IN  Returned([total_missing      |-> total_missing,
                           missing_rate       |-> missing_rate,
                           missing_percentage |-> FormatPct(RMul(missing_rate, Num(100))),
                           gap_count          |-> Len(gap_lengths),
                           max_gap_length     |-> IF gap_lengths # <<>> THEN max(gap_lengths) ELSE 0,
                           avg_gap_length     |-> IF gap_lengths # <<>> THEN np_mean(gap_lengths) ELSE Num(0),
                           gap_lengths        |-> gap_lengths])
        ELSE Returned([total_missing      |-> 0,
                       missing_rate       |-> Num(0),
                       missing_percentage |-> "0.00%",
                       gap_count          |-> 0,
                       max_gap_length     |-> 0,
                       avg_gap_length     |-> Num(0),
                       gap_lengths        |-> <<>>])

-----------------------------------------------------------------------------
(* imputation: linear_impute *)

\* nearest valid (non-null) position before / after i; 0 when there is none
PrevValid(s, i) ==
    LET V == {j \in 1..(i - 1) : ~IsNa(s[j])}
    IN  IF V = {} THEN 0 ELSE CHOOSE j \in V : \A k \in V : k <= j
NextValid(s, i) ==
    LET V == {j \in (i + 1)..Len(s) : ~IsNa(s[j])}
    IN  IF V = {} THEN 0 ELSE CHOOSE j \in V : \A k \in V : j <= k

\* mutant: the plain average of the two neighbours
np_interp_midpoint(s, x, i, p, n) == RDiv(RAdd(s[p], s[n]), Num(2))

\* np.interp at the null position i between its valid neighbours p and n,
\* over the coordinates x (row positions, or the time index)
np_interp(s, x, i, p, n) ==
    RAdd(s[p], RDiv(RMul(RSub(x[i], x[p]), RSub(s[n], s[p])), RSub(x[n], x[p])))

\* an object-dtype cell holding the text t; it has three components, a
\* number has two
Str(t) == <<0, 1, t>>
IsStr(v) == Len(v) = 3

\* a series that holds text: its dtype is object
has_text(s) == \E i \in 1..Len(s) : IsStr(s[i])

\* Series.interpolate(method=m) with pandas' defaults (limit=None,
\* limit_direction='forward', limit_area=None): leading nulls are kept;
\* 'linear' and 'time' interpolate inside and repeat the last valid value
\* after it; 'pad' repeats the previous valid value; 'nearest' (scipy
\* interp1d) fills inside only, a tie going to the earlier neighbour; a
\* series of object dtype is returned as it is (only float blocks are
\* interpolated)
interpolate(s, m, x) ==
    IF (\A i \in 1..Len(s) : IsNa(s[i])) \/ (\A i \in 1..Len(s) : ~IsNa(s[i])) THEN s
    ELSE IF has_text(s) /\ m # "pad" THEN s
    ELSE [i \in 1..Len(s) |->
            LET p == PrevValid(s, i)
                n == NextValid(s, i)
            IN  IF ~IsNa(s[i]) THEN s[i]
                ELSE IF p = 0 THEN NaN
                ELSE IF m = "pad" THEN s[p]
                ELSE IF m = "nearest"
                     THEN IF n = 0 THEN NaN
                          ELSE IF RLt(RSub(x[n], x[i]), RSub(x[i], x[p])) THEN s[n] ELSE s[p]
                ELSE IF n = 0 THEN s[p]
                ELSE np_interp(s, x, i, p, n)]

\* row positions 0..n-1 as coordinates
Positions(n) == [i \in 1..n |-> Num(i - 1)]

\* df.set_index('timestamp', inplace=True) followed, after the column
\* assignment, by df.reset_index(inplace=True): 'timestamp' comes back as
\* the first column over a fresh RangeIndex
reset_index(d) ==
    [d EXCEPT !.columns = <<"timestamp">> \o SelectSeq(d.columns, LAMBDA c : c # "timestamp"),
              !.index = "RangeIndex"]

\* lines 40-53: the gaps the max_gap loop reports (prints) as skipped;
\* the loop assigns nothing
skipped_gaps(d, c, mg) ==
    IF ~HasColumn(d, c) \/ sum(isna(d.data[c])) = 0 THEN <<>>
    ELSE IF mg # <<>> /\ mg[1] > 0
         THEN SelectSeq(gap_lengths_of(isna(d.data[c])), LAMBDA gap_length : gap_length > mg[1])
         ELSE <<>>

\* df.set_index('timestamp', inplace=True): the column becomes the index
set_index(d) ==
    [d EXCEPT !.columns = SelectSeq(d.columns, LAMBDA c : c # "timestamp"),
              !.index = "timestamp"]

\* Series.fillna(method='ffill') and Series.fillna(method='bfill')
ffill(s) == [i \in 1..Len(s) |->
                IF ~IsNa(s[i]) \/ PrevValid(s, i) = 0 THEN s[i] ELSE s[PrevValid(s, i)]]
bfill(s) == [i \in 1..Len(s) |->
                IF ~IsNa(s[i]) \/ NextValid(s, i) = 0 THEN s[i] ELSE s[NextValid(s, i)]]

\* mutant: the fallback fills forward only
fallback_fill_forward(s) == ffill(s)

\* line 74: the fallback of the except clause
fallback_fill(s) == bfill(ffill(s))

\* interpolate(method='time') raises ValueError unless the index holds
\* datetimes ("time-weighted interpolation only works on Series or
\* DataFrames with a DatetimeIndex"); the other methods of the dispatch do
\* not raise on a RangeIndex
interpolate_raises(d, m) == m = "time" /\ d.ts_dtype # "datetime64"

\* lines 56-74: the method dispatch and its except clause.  When
\* interpolate raises in the 'time' branch, set_index has already moved
\* 'timestamp' into the index and reset_index is not reached
impute_column(d, c, m) ==
    IF m = "time" /\ HasColumn(d, "timestamp")
    THEN IF interpolate_raises(d, "time")
         THEN [set_index(d) EXCEPT !.data[c] = fallback_fill(d.data[c])]
         ELSE reset_index([d EXCEPT !.data[c] = interpolate(d.data[c], "time", d.data["timestamp"])])
    ELSE IF m = "linear" THEN [d EXCEPT !.data[c] = interpolate(d.data[c], "linear", Positions(len(d)))]
    ELSE IF m = "pad" THEN [d EXCEPT !.data[c] = interpolate(d.data[c], "pad", Positions(len(d)))]
    ELSE IF m = "nearest" THEN [d EXCEPT !.data[c] = interpolate(d.data[c], "nearest", Positions(len(d)))]
    ELSE [d EXCEPT !.data[c] = interpolate(d.data[c], "linear", Positions(len(d)))]

linear_impute(d, c, mg, m) ==
    IF ~HasColumn(d, c) THEN Raised("ValueError")
    ELSE IF sum(isna(d.data[c])) = 0 THEN Returned(d)
    ELSE Returned(impute_column(d, c, m))

\* mutant: the function works on the caller's object
df_alias(d) == "argument"

\* df.copy(): the object the function works on from then on: a new one
df_copy(d) == "copy"

\* the caller's dataset after a call that did all its in-place work on the
\* object obj and ended with outcome out: the functions return the object
\* they worked on
arg_after(obj, d, out) ==
    IF obj = "argument" /\ out.kind = "return" THEN out.value ELSE d

-----------------------------------------------------------------------------
(* imputation: advanced_impute *)

\* pd.to_datetime(timestamp).dt.hour, timestamps being counted in hours
hour_of(ts) == ts[1] % 24

\* the sequence s with v inserted before the first greater element
RECURSIVE insort(_, _)
insort(s, v) ==
    IF s = <<>> THEN <<v>>
    ELSE IF RLt(v, Head(s)) THEN <<v>> \o s
    ELSE <<Head(s)>> \o insort(Tail(s), v)

RECURSIVE sorted(_)
sorted(s) == IF s = <<>> THEN <<>> ELSE insort(sorted(Tail(s)), Head(s))

\* Series.median(): nulls skipped, NaN when no value is left
median(s) ==
    LET v == sorted(dropna(s))
        n == Len(v)
    IN  IF n = 0 THEN NaN
        ELSE IF n % 2 = 1 THEN v[(n + 1) \div 2]
        ELSE RDiv(RAdd(v[n \div 2], v[n \div 2 + 1]), Num(2))

\* lines 110-120: each null takes the median of the rows of its hour, when
\* that median is not null
seasonal_fill(s, ts) ==
    LET hour == [i \in 1..Len(s) |-> hour_of(ts[i])]
        hourly_median(h) == median([i \in 1..Len(s) |-> IF hour[i] = h THEN s[i] ELSE NaN])
    IN  [i \in 1..Len(s) |->
            IF IsNa(s[i]) /\ ~IsNa(hourly_median(hour[i])) THEN hourly_median(hour[i]) ELSE s[i]]

\* line 111, df['hour'] = pd.to_datetime(df['timestamp']).dt.hour: a column
\* 'hour' of the dataset is overwritten where it stands, a new one is
\* appended
assign_hour(d) ==
    [d EXCEPT !.columns = IF HasColumn(d, "hour") THEN @ ELSE Append(@, "hour"),
              !.data = [k \in DOMAIN d.data \cup {"hour"} |->
                           IF k = "hour"
                           THEN [i \in 1..len(d) |-> Num(hour_of(d.data["timestamp"][i]))]
                           ELSE d.data[k]]]

\* df.drop(columns=['hour'], inplace=True)
drop_hour(d) ==
    [d EXCEPT !.columns = SelectSeq(d.columns, LAMBDA c : c # "hour"),
              !.data = [k \in DOMAIN d.data \ {"hour"} |-> d.data[k]]]

\* line 128
window_size(d) == IF 5 < len(d) \div 10 THEN 5 ELSE len(d) \div 10

\* Series.rolling(window=w, min_periods=1, center=True).mean() for w >= 1:
\* the window of row i ends (w - 1) \div 2 rows after it
rolling_mean(s, w) ==
    [i \in 1..Len(s) |->
        LET hi == i + (w - 1) \div 2
            lo == hi - w + 1
        IN  series_mean([k \in 1..Len(s) |-> IF lo <= k /\ k <= hi THEN s[k] ELSE NaN])]

\* Series.fillna(other): nulls take the value at the same row of other
fillna(s, other) == [i \in 1..Len(s) |-> IF IsNa(s[i]) THEN other[i] ELSE s[i]]

\* a finite value the model does not compute
Unspecified == <<1, -1>>

\* scipy's UnivariateSpline of order 3 needs more than 3 points
spline_raises(s) ==
    /\ \E i \in 1..Len(s) : IsNa(s[i])
    /\ \E i \in 1..Len(s) : ~IsNa(s[i])
    /\ Len(dropna(s)) <= 3

\* interpolate(method='spline', order=3) when it does not raise: every null
\* after the first value is filled from the smoothing spline
spline_interpolate(s) ==
    [i \in 1..Len(s) |-> IF IsNa(s[i]) /\ PrevValid(s, i) # 0 THEN Unspecified ELSE s[i]]

advanced_impute(d, c, strategy) ==
    IF ~HasColumn(d, c) THEN Raised("ValueError")
    ELSE IF strategy = "seasonal" /\ HasColumn(d, "timestamp")
    THEN Returned(drop_hour([assign_hour(d) EXCEPT !.data[c] =
             interpolate(seasonal_fill(d.data[c], d.data["timestamp"]), "linear", Positions(len(d)))]))
    ELSE IF strategy = "rolling_mean"
    THEN \* rolling() rejects min_periods = 1 over a window of 0 rows
         IF window_size(d) < 1 THEN Raised("ValueError")
         ELSE Returned([d EXCEPT !.data[c] = fillna(d.data[c], rolling_mean(d.data[c], window_size(d)))])
    ELSE IF strategy = "spline"
    THEN IF spline_raises(d.data[c])
         THEN Returned([d EXCEPT !.data[c] = interpolate(d.data[c], "linear", Positions(len(d)))])
         ELSE Returned([d EXCEPT !.data[c] = spline_interpolate(d.data[c])])
    ELSE Returned(d)

-----------------------------------------------------------------------------
(* imputation: handle_missing_values *)

\* lines 228-235: the method dispatch
dispatch(d, c, m, mg) ==
    IF m \in {"linear", "pad", "nearest", "time"} THEN linear_impute(d, c, mg, m)
    ELSE IF m \in {"seasonal", "rolling_mean", "spline"} THEN advanced_impute(d, c, m)
    ELSE linear_impute(d, c, mg, "linear")

\* the report blocks subscript the statistics dict with 'total_missing',
\* which raises KeyError on the dict get_missing_stats returns for an
\* absent column
handle_missing_values(d, c, m, mg, rep) ==
    IF rep /\ "total_missing" \notin DOMAIN get_missing_stats(d, c).value
    THEN Raised("KeyError")
    ELSE LET result_df == dispatch(d, c, m, mg)
         IN  IF result_df.kind = "raise" THEN result_df
             ELSE IF rep /\ "total_missing" \notin DOMAIN get_missing_stats(result_df.value, c).value
             THEN Raised("KeyError")
             ELSE result_df

-----------------------------------------------------------------------------
(* report_generator: QualityReportGenerator *)

_get_missing_stats(d, c) ==
    IF ~HasColumn(d, c) THEN Returned([error |-> "column does not exist"])
    ELSE
    LET missing_mask  == isna(d.data[c])
        total_missing == sum(missing_mask)
        missing_rate  == IF len(d) > 0 THEN Rat(total_missing, len(d)) ELSE Num(0)
    IN  IF total_missing > 0
        THEN LET gap_lengths == gap_lengths_of(missing_mask)
             IN  Returned([total_missing      |-> total_missing,
                           missing_rate       |-> missing_rate,
                           missing_percentage |-> FormatPct(RMul(missing_rate, Num(100))),
                           gap_count          |-> Len(gap_lengths),
                           max_gap_length     |-> IF gap_lengths # <<>> THEN max(gap_lengths) ELSE 0,
                           avg_gap_length     |-> IF gap_lengths # <<>> THEN np_mean(gap_lengths) ELSE Num(0),
                           gap_lengths        |-> gap_lengths])
        ELSE Returned([total_missing      |-> 0,
                       missing_rate       |-> Num(0),
                       missing_percentage |-> "0.00%",
                       gap_count          |-> 0,
                       max_gap_length     |-> 0,
                       avg_gap_length     |-> Num(0),
                       gap_lengths        |-> <<>>])

\* __init__: both frames are copied, the report starts empty
NewGenerator(raw, cleaned) == [raw_df |-> raw, cleaned_df |-> cleaned, report |-> <<>>]

\* mutant: the report dict is created anew by every write
SetSection_fresh(report, key, value) == [k \in {key} |-> value]

\* self.report[key] = value
SetSection(report, key, value) ==
    [k \in {key} \cup DOMAIN report |-> IF k = key THEN value ELSE report[k]]

\* mutant: the guard on the raw missing rate left out
improvement_percentage_unguarded(raw_missing, cleaned_missing) ==
    IF raw_missing.missing_rate = Num(0) THEN Raised("ZeroDivisionError")
    ELSE Returned(FormatPct(RMul(RSub(Num(1), RDiv(cleaned_missing.missing_rate,
                                                    raw_missing.missing_rate)),
                                 Num(100))))

\* lines 120-121: the conditional expression; a float division by zero
\* raises ZeroDivisionError
improvement_percentage(raw_missing, cleaned_missing) ==
    IF RGt(raw_missing.missing_rate, Num(0))
    THEN IF raw_missing.missing_rate = Num(0) THEN Raised("ZeroDivisionError")
         ELSE Returned(FormatPct(RMul(RSub(Num(1), RDiv(cleaned_missing.missing_rate,
                                                         raw_missing.missing_rate)),
                                      Num(100))))
    ELSE Returned("100.00%")

\* mutant: the operands exchanged
missing_fixed_swapped(raw_missing, cleaned_missing) ==
    cleaned_missing.total_missing - raw_missing.total_missing

\* line 118
missing_fixed(raw_missing, cleaned_missing) ==
    raw_missing.total_missing - cleaned_missing.total_missing

\* the outcome of generate_missing_analysis(column) on generator g; a
\* statistics dict without "total_missing" makes the subscript raise KeyError
generate_missing_analysis(g, c) ==
    LET raw_missing     == _get_missing_stats(g.raw_df, c).value
        cleaned_missing == _get_missing_stats(g.cleaned_df, c).value
    IN  IF "total_missing" \notin DOMAIN raw_missing \/ "total_missing" \notin DOMAIN cleaned_missing
        THEN Raised("KeyError")
        ELSE LET imp == improvement_percentage(raw_missing, cleaned_missing)
             IN  IF imp.kind = "raise" THEN imp
                 ELSE Returned([raw_data     |-> raw_missing,
                                cleaned_data |-> cleaned_missing,
                                summary      |-> [missing_fixed          |-> missing_fixed(raw_missing, cleaned_missing),
                                                  missing_remaining      |-> cleaned_missing.total_missing,
                                                  improvement_percentage |-> imp.value]])

-----------------------------------------------------------------------------
(* The datasets the model enumerates *)

Values == {1, 3}
Cells  == {NaN} \cup {Num(v) : v \in Values}

SeriesUpTo(n) == UNION {[1..k -> Cells] : k \in 0..n}

\* the series of the documented scenarios
Example1 == <<Num(1), Num(2), NaN, NaN, NaN, Num(6), Num(7)>>
Example2 == <<Num(1), Num(2), NaN, Num(6), Num(7)>>
Example3 == <<NaN, NaN, NaN, Num(1), NaN, Num(2), NaN, NaN, NaN, NaN, NaN, NaN>>
Examples == {Example1, Example2, Example3}

\* irregularly spaced, strictly increasing timestamps (hours)
Stamps(n) == [i \in 1..n |-> Num((i * (i + 1)) \div 2)]

FrameKinds == {"ts_temp", "temp", "ts_hum"}

\* ts_dtype is the dtype of the timestamp values: "datetime64" when they were
\* built or parsed as datetimes, "object" when they are the strings
\* pd.read_csv leaves, "none" when the frame has no timestamps
Frame(kind, s) ==
    IF kind = "ts_temp"
    THEN [columns |-> <<"timestamp", "temperature">>, index |-> "RangeIndex", nrows |-> Len(s),
          ts_dtype |-> "datetime64",
          data |-> [timestamp |-> Stamps(Len(s)), temperature |-> s]]
    ELSE IF kind = "csv_temp"
    THEN [columns |-> <<"timestamp", "temperature">>, index |-> "RangeIndex", nrows |-> Len(s),
          ts_dtype |-> "object",
          data |-> [timestamp |-> Stamps(Len(s)), temperature |-> s]]
    ELSE IF kind = "temp"
    THEN [columns |-> <<"temperature">>, index |-> "RangeIndex", nrows |-> Len(s),
          ts_dtype |-> "none",
          data |-> [temperature |-> s]]
    ELSE IF kind = "temp_ts"
    THEN [columns |-> <<"temperature", "timestamp">>, index |-> "RangeIndex", nrows |-> Len(s),
          ts_dtype |-> "datetime64",
          data |-> [timestamp |-> Stamps(Len(s)), temperature |-> s]]
    ELSE IF kind = "ts_temp_hour"
    THEN [columns |-> <<"timestamp", "temperature", "hour">>, index |-> "RangeIndex",
          nrows |-> Len(s), ts_dtype |-> "datetime64",
          data |-> [timestamp |-> Stamps(Len(s)), temperature |-> s,
                    hour |-> [i \in 1..Len(s) |-> Num(12)]]]
    ELSE [columns |-> <<"timestamp", "humidity">>, index |-> "RangeIndex", nrows |-> Len(s),
          ts_dtype |-> "datetime64",
          data |-> [timestamp |-> Stamps(Len(s)), humidity |-> s]]

Frames == {Frame(k, s) : k \in FrameKinds, s \in SeriesUpTo(MaxLen) \cup Examples}

Methods == {"linear", "pad", "nearest", "time", "spline"}

\* the default max_gap of linear_impute
DefaultMaxGap == 5

MaxGaps == {<<>>, <<DefaultMaxGap>>} \cup {<<m>> : m \in 0..MaxGap}

-----------------------------------------------------------------------------
(* quality_check: ThreeSigmaDetector *)

\* the number base + coef * sqrt(rad), kept exact; NaN when a part is NaN
Surd(base, coef, rad) == [base |-> base, coef |-> coef, rad |-> rad]
SurdIsNa(b) == IsNa(b.base) \/ IsNa(b.rad)

Sign(n) == IF n > 0 THEN 1 ELSE IF n < 0 THEN -1 ELSE 0

\* the sign of v - (base + coef * sqrt(rad)) for non-NaN operands
SurdCmp(v, b) ==
    LET d   == RSub(v, b.base)
        sd  == Sign(d[1])
        sb  == IF b.rad[1] = 0 THEN 0 ELSE Sign(b.coef)
        d2  == RMul(d, d)
        b2  == RMul(Num(b.coef * b.coef), b.rad)
        cmp == IF RLt(b2, d2) THEN 1 ELSE IF RLt(d2, b2) THEN -1 ELSE 0
    IN  IF sd >= 0 /\ sb <= 0 THEN (IF sd = 0 /\ sb = 0 THEN 0 ELSE 1)
        ELSE IF sd <= 0 /\ sb >= 0 THEN -1
        ELSE IF sd > 0 THEN cmp
        ELSE -cmp

\* value < bound, value > bound: False when either side is NaN
LtBound(v, b) == ~IsNa(v) /\ ~SurdIsNa(b) /\ SurdCmp(v, b) < 0
GtBound(v, b) == ~IsNa(v) /\ ~SurdIsNa(b) /\ SurdCmp(v, b) > 0

\* __init__: the sigma level is stored as given
ThreeSigmaDetector(sigma_level) == [sigma_level |-> sigma_level, thresholds |-> <<>>]

\* mutant: a zero standard deviation is replaced by 1
thresholds_of_floored(sigma_level, s) ==
    LET mean == series_mean(s)
        var  == IF series_var(s) = Num(0) THEN Num(1) ELSE series_var(s)
    IN  [mean        |-> mean,
         std         |-> [sqrt_of |-> var],
         upper_bound |-> Surd(mean, sigma_level, var),
         lower_bound |-> Surd(mean, -sigma_level, var)]

\* the dict fit() builds; 'std' is held by its square
thresholds_of(sigma_level, s) ==
    LET mean == series_mean(s)
        var  == series_var(s)
    IN  [mean        |-> mean,
         std         |-> [sqrt_of |-> var],
         upper_bound |-> Surd(mean, sigma_level, var),
         lower_bound |-> Surd(mean, -sigma_level, var)]

fit(d, s) == [d EXCEPT !.thresholds = thresholds_of(d.sigma_level, s)]

\* mutant: every detect refits
needs_fit_always(d) == TRUE

\* "if not self.thresholds": an empty dict
needs_fit(d) == d.thresholds = <<>>

\* mutant: the bounds themselves count as outliers
is_anomaly_inclusive(v, th) ==
    /\ ~IsNa(v)
    /\ ~SurdIsNa(th.lower_bound)
    /\ (SurdCmp(v, th.lower_bound) <= 0 \/ SurdCmp(v, th.upper_bound) >= 0)

\* (value < lower_bound) | (value > upper_bound)
is_anomaly(v, th) == LtBound(v, th.lower_bound) \/ GtBound(v, th.upper_bound)

\* detect(): the detector after the call and the flags returned
detect(d, s) ==
    LET d2 == IF needs_fit(d) THEN fit(d, s) ELSE d
    IN  [det |-> d2, anomalies |-> [i \in 1..Len(s) |-> is_anomaly(s[i], d2.thresholds)]]

\* positions are reported by index label: 0-based
IndicesOf(flags) == SelectSeq([i \in 1..Len(flags) |-> i - 1], LAMBDA j : flags[j + 1])

generate_report(d, s) ==
    LET r == detect(d, s)
    IN  [det |-> r.det,
         report |-> [total_samples   |-> Len(s),
                     anomaly_count   |-> sum(r.anomalies),
                     anomaly_rate    |-> Rat(sum(r.anomalies), Len(s)),
                     thresholds      |-> r.det.thresholds,
                     anomaly_indices |-> IndicesOf(r.anomalies)]]

-----------------------------------------------------------------------------
(* report_generator: the sections of the report *)

\* Python's None
None == "None"

\* Series.quantile(qn/qd) of the non-empty ascending sequence v: linear
\* interpolation between the two closest ranks
quantile(v, qn, qd) ==
    LET n    == Len(v)
        rank == (n - 1) * qn
        lo   == rank \div qd
        frac == Rat(rank % qd, qd)
    IN  IF lo + 1 >= n THEN v[n]
        ELSE RAdd(v[lo + 1], RMul(frac, RSub(v[lo + 2], v[lo + 1])))

\* the index of the Series describe() returns
describe_index == {"count", "mean", "std", "min", "25%", "50%", "75%", "max"}

\* lines 79-89 and 94-104: the statistics of one column, None when no value
\* is left after dropna(); 'std' is held by its square
describe(s) ==
    LET data == dropna(s)
        v    == sorted(data)
        n    == Len(data)
    IN  [k \in describe_index |->
            CASE k = "count" -> n
              [] n = 0       -> None
              [] k = "mean"  -> series_mean(data)
              [] k = "std"   -> [sqrt_of |-> series_var(data)]
              [] k = "min"   -> v[1]
              [] k = "max"   -> v[n]
              [] k = "25%"   -> quantile(v, 1, 4)
              [] k = "50%"   -> quantile(v, 1, 2)
              [] OTHER       -> quantile(v, 3, 4)]

\* the dict generate_basic_stats(column) builds: a frame without the column
\* gets no entry
generate_basic_stats(g, c) ==
    LET present == (IF HasColumn(g.raw_df, c) THEN {"raw_data"} ELSE {})
                       \cup (IF HasColumn(g.cleaned_df, c) THEN {"cleaned_data"} ELSE {})
    IN  [k \in present |->
            IF k = "raw_data" THEN describe(g.raw_df.data[c]) ELSE describe(g.cleaned_df.data[c])]

\* lines 154-182; the method label is written in ASCII
_auto_detect_outliers(g) ==
    IF HasColumn(g.raw_df, "temperature") /\ Len(dropna(g.raw_df.data["temperature"])) > 0
    THEN LET col         == g.raw_df.data["temperature"]
             data        == dropna(col)
             mean_val    == series_mean(data)
             var_val     == series_var(data)
             upper_bound == Surd(mean_val, 3, var_val)
             lower_bound == Surd(mean_val, -3, var_val)
             outliers    == sum([i \in 1..Len(col) |->
                                    GtBound(col[i], upper_bound) \/ LtBound(col[i], lower_bound)])
         IN  [method      |-> "auto 3-sigma",
              temperature |-> [mean               |-> mean_val,
                               std                |-> [sqrt_of |-> var_val],
                               upper_3sigma       |-> upper_bound,
                               lower_3sigma       |-> lower_bound,
                               outlier_count      |-> outliers,
                               outlier_percentage |->
                                   IF len(g.raw_df) > 0
                                   THEN FormatPct(RMul(Rat(outliers, len(g.raw_df)), Num(100)))
                                   ELSE "0.00%"]]
    ELSE [method |-> "auto 3-sigma"]

\* lines 135-150; outlier_mask is <<>> for None, <<mask>> for a boolean series
generate_outlier_analysis(g, outlier_mask) ==
    IF outlier_mask # <<>>
    THEN LET outlier_count == sum(outlier_mask[1])
             outlier_rate  == IF len(g.raw_df) > 0 THEN Rat(outlier_count, len(g.raw_df)) ELSE Num(0)
         IN  [detected_outliers |-> [count      |-> outlier_count,
                                     rate       |-> outlier_rate,
                                     percentage |-> FormatPct(RMul(outlier_rate, Num(100)))],
              method            |-> "3-sigma"]
    ELSE _auto_detect_outliers(g)

\* DataFrame.shape
shape(d) == <<d.nrows, Len(d.columns)>>

\* lines 188-207; now is the clock reading formatted by strftime
generate_data_quality_summary(g, now) ==
    [report_generated_at |-> now,
     data_overview       |-> [raw_data_shape     |-> shape(g.raw_df),
                              cleaned_data_shape |-> shape(g.cleaned_df),
                              columns            |-> g.raw_df.columns],
     quality_indicators  |->
         IF "missing_analysis" \in DOMAIN g.report
         THEN LET missing_info == g.report["missing_analysis"]
              IN  [completeness |->
                      [raw         |-> RSub(Num(1), missing_info.raw_data.missing_rate),
                       cleaned     |-> RSub(Num(1), missing_info.cleaned_data.missing_rate),
                       improvement |-> missing_info.summary.improvement_percentage]]
         ELSE <<>>]

\* df.head().to_dict(orient='records'): the first five rows, each a dict
\* from column name to value
head_records(d) ==
    [i \in 1..(IF d.nrows < 5 THEN d.nrows ELSE 5) |->
        [c \in {d.columns[j] : j \in 1..Len(d.columns)} |-> d.data[c][i]]]

\* lines 250-285: the lines _print_console_summary prints from the report
_print_console_summary(rp) ==
    (IF "summary" \in DOMAIN rp
     THEN <<ToString(rp["summary"].data_overview.raw_data_shape[1]) \o " rows, "
               \o ToString(rp["summary"].data_overview.raw_data_shape[2]) \o " columns",
            ToString(rp["summary"].data_overview.cleaned_data_shape[1]) \o " rows, "
               \o ToString(rp["summary"].data_overview.cleaned_data_shape[2]) \o " columns">>
     ELSE <<>>)
    \o (IF "missing_analysis" \in DOMAIN rp
        THEN <<rp["missing_analysis"].raw_data.missing_percentage,
               rp["missing_analysis"].cleaned_data.missing_percentage,
               rp["missing_analysis"].summary.improvement_percentage>>
        ELSE <<>>)
    \o (IF "outlier_analysis" \in DOMAIN rp /\ "detected_outliers" \in DOMAIN rp["outlier_analysis"]
        THEN <<ToString(rp["outlier_analysis"].detected_outliers.count),
               rp["outlier_analysis"].detected_outliers.percentage>>
        ELSE <<>>)
    \o (IF "summary" \in DOMAIN rp THEN <<rp["summary"].report_generated_at>> ELSE <<>>)

\* lines 242-248: the finished report is printed and returned
full_report_return(g, report5) ==
    [gen     |-> [g EXCEPT !.report = report5],
     out     |-> Returned(report5),
     printed |-> _print_console_summary(report5)]

\* mutant: the summary is computed before the analyses of this call are
\* written
full_report_summary_stale(g, report3, now) ==
    full_report_return(g,
        SetSection(SetSection(report3, "summary", generate_data_quality_summary(g, now)),
                   "data_samples",
                   [raw_first_5     |-> head_records(g.raw_df),
                    cleaned_first_5 |-> head_records(g.cleaned_df)]))

\* lines 233-240: the summary is computed from the report written so far,
\* then the data samples are added
full_report_summary(g, report3, now) ==
    full_report_return(g,
        SetSection(SetSection(report3, "summary",
                              generate_data_quality_summary([g EXCEPT !.report = report3], now)),
                   "data_samples",
                   [raw_first_5     |-> head_records(g.raw_df),
                    cleaned_first_5 |-> head_records(g.cleaned_df)]))

\* lines 227-231: the missing analysis ma and the outlier analysis are
\* written after the basic statistics; an exception of the missing analysis
\* leaves the sections written so far
full_report_analyses(g, report1, ma, outlier_mask, now) ==
    IF ma.kind = "raise"
    THEN [gen |-> [g EXCEPT !.report = report1], out |-> ma, printed |-> <<>>]
    ELSE full_report_summary(g,
             SetSection(SetSection(report1, "missing_analysis", ma.value),
                        "outlier_analysis", generate_outlier_analysis(g, outlier_mask)),
             now)

\* the generator after generate_full_report(column, outlier_mask), the
\* call's outcome and the lines printed; the sections are written in the
\* order of lines 224-240
generate_full_report(g, c, outlier_mask, now) ==
    full_report_analyses(g, SetSection(g.report, "basic_stats", generate_basic_stats(g, c)),
                         generate_missing_analysis(g, c), outlier_mask, now)

-----------------------------------------------------------------------------
(* loader: load_weather_data *)

\* A path is the sequence of its characters.  What a path names on disk is
\* [kind |-> "absent"], [kind |-> "dir"] or [kind |-> "file", format, lines]:
\* format "text" holds the lines of a delimited text file, format
\* "workbook" the rows of the first sheet of an Excel workbook; a line is
\* the sequence of its cells' texts and the first line is the header.

\* str.endswith(suffix)
endswith(path, suffix) ==
    /\ Len(path) >= Len(suffix)
    /\ SubSeq(path, Len(path) - Len(suffix) + 1, Len(path)) = suffix

\* os.path.isfile(path) and os.path.exists(path)
isfile(entry) == entry.kind = "file"
exists(entry) == entry.kind # "absent"

\* the texts the parser reads as numbers, with their values
NumberTexts == {"1", "3", "1.0", "55"}
float(text) ==
    CASE text = "1"   -> Num(1)
      [] text = "3"   -> Num(3)
      [] text = "1.0" -> Num(1)
      [] text = "55"  -> Num(55)

\* the parser's type inference: a column is numeric when it has a row and
\* each of its cells is empty or a number; an empty cell is NaN
is_number_column(rows, j) ==
    /\ rows # <<>>
    /\ \A i \in 1..Len(rows) : rows[i][j] = "" \/ rows[i][j] \in NumberTexts

parse_cell(text, numeric) ==
    IF text = "" THEN NaN
    ELSE IF numeric THEN float(text)
    ELSE Str(text)

\* the DataFrame built from a header and rows of cell texts
build_frame(header, rows) ==
    [columns  |-> header,
     index    |-> "RangeIndex",
     nrows    |-> Len(rows),
     ts_dtype |-> IF \E j \in 1..Len(header) : header[j] = "timestamp" THEN "object" ELSE "none",
     data     |-> [c \in {header[j] : j \in 1..Len(header)} |->
                     LET j == CHOOSE k \in 1..Len(header) : header[k] = c
                     IN  [i \in 1..Len(rows) |-> parse_cell(rows[i][j], is_number_column(rows, j))]]]

\* pd.read_csv(file_path): a directory cannot be opened, a file without any
\* line raises EmptyDataError ("No columns to parse from file"), a header
\* line alone gives a frame of zero rows
read_csv(entry) ==
    IF ~isfile(entry) THEN Raised("IsADirectoryError")
    ELSE IF entry.lines = <<>> THEN Raised("EmptyDataError")
    ELSE Returned(build_frame(Head(entry.lines), Tail(entry.lines)))

\* pd.read_excel(file_path): an empty sheet gives an empty frame
read_excel(entry) ==
    IF entry.lines = <<>> THEN Returned(build_frame(<<>>, <<>>))
    ELSE Returned(build_frame(Head(entry.lines), Tail(entry.lines)))

\* lines 14-31; both except clauses re-raise an exception of the same type
load_weather_data(path, entry) ==
    IF ~isfile(entry) THEN Raised("FileNotFoundError")
    ELSE IF endswith(path, <<".", "c", "s", "v">>) THEN read_csv(entry)
    ELSE IF endswith(path, <<".", "x", "l", "s", "x">>) THEN read_excel(entry)
    ELSE Raised("ValueError")

-----------------------------------------------------------------------------
(* pipeline script: the functions it defines *)

\* DataFrame.select_dtypes(include=['number']).columns: a column without
\* rows or with text is of object dtype, timestamps are no numbers
is_number_dtype(d, c) ==
    /\ d.nrows > 0
    /\ ~has_text(d.data[c])
    /\ ~(c = "timestamp" /\ d.ts_dtype # "none")

select_dtypes_number(d) == SelectSeq(d.columns, LAMBDA c : is_number_dtype(d, c))

\* Series.mean() of an object series that holds text raises TypeError
mean_raises(s) == has_text(s)

\* lines 102-117: the entry three_sigma_detect stores for one column, <<>>
\* when the standard deviation is not positive; 'std' is held by its square
sigma_entry(s, sigma) ==
    LET col_data == dropna(s)
        mean_val == series_mean(col_data)
        var_val  == series_var(col_data)
        upper    == Surd(mean_val, sigma, var_val)
        lower    == Surd(mean_val, -sigma, var_val)
        mask     == [i \in 1..Len(s) |-> GtBound(s[i], upper) \/ LtBound(s[i], lower)]
    IN  IF Len(col_data) > 0 /\ RGt(var_val, Num(0))
        THEN <<[mask  |-> mask,
                count |-> sum(mask),
                mean  |-> mean_val,
                std   |-> [sqrt_of |-> var_val],
                upper |-> upper,
                lower |-> lower]>>
        ELSE <<>>

\* lines 94-118: the dict from column name to entry; the columns handed
\* over are columns of data
three_sigma_detect(data, columns, sigma) ==
    IF \E j \in 1..Len(columns) : mean_raises(data.data[columns[j]])
    THEN Raised("TypeError")
    ELSE Returned([c \in {columns[j] : j \in {k \in 1..Len(columns) :
                                                sigma_entry(data.data[columns[k]], sigma) # <<>>}} |->
                      sigma_entry(data.data[c], sigma)[1]])

\* sum(info.get('count', 0) for info in outlier_info.values())
RECURSIVE count_total(_, _)
count_total(outlier_info, columns) ==
    IF columns = <<>> THEN 0
    ELSE (IF Head(columns) \in DOMAIN outlier_info THEN outlier_info[Head(columns)].count ELSE 0)
         + count_total(outlier_info, Tail(columns))

\* outlier_info.get(target_col, {}).get('mask', None)
mask_of(outlier_info, target_col) ==
    IF target_col \in DOMAIN outlier_info THEN <<outlier_info[target_col].mask>> ELSE <<>>

\* lines 84-90 for one column: (x - mean) / std when std > 0, else the
\* whole column becomes 0.  The quotient is irrational: the column holds
\* the deviations x - mean and the frame's 'scale' the variance whose root
\* they are to be divided by
zscore_column(s) ==
    IF \A i \in 1..Len(s) : IsNa(s[i]) THEN s
    ELSE IF RGt(series_var(s), Num(0))
         THEN [i \in 1..Len(s) |-> RSub(s[i], series_mean(s))]
         ELSE [i \in 1..Len(s) |-> Num(0)]

\* lines 77-91: the normalised copy of data
zscore_normalize(data, columns) ==
    IF \E j \in 1..Len(columns) : mean_raises(data.data[columns[j]])
    THEN Raised("TypeError")
    ELSE Returned(
           [columns  |-> data.columns,
            index    |-> data.index,
            nrows    |-> data.nrows,
            ts_dtype |-> data.ts_dtype,
            data     |-> [c \in DOMAIN data.data |->
                            IF \E j \in 1..Len(columns) : columns[j] = c
                            THEN zscore_column(data.data[c]) ELSE data.data[c]],
            scale    |-> [c \in {columns[j] : j \in {k \in 1..Len(columns) :
                                       RGt(series_var(data.data[columns[k]]), Num(0))}} |->
                            series_var(data.data[c])]])

\* DataFrame[columns].isna().sum().sum()
RECURSIVE missing_total(_, _)
missing_total(d, columns) ==
    IF columns = <<>> THEN 0
    ELSE sum(isna(d.data[Head(columns)])) + missing_total(d, Tail(columns))

\* lines 146-164: the figures the built-in report prints for one column,
\* <<>> when the column is absent or has no value
column_figures(d, c) ==
    IF HasColumn(d, c) /\ Len(dropna(d.data[c])) > 0
    THEN <<[count |-> Len(dropna(d.data[c])),
            mean  |-> series_mean(d.data[c]),
            std   |-> [sqrt_of |-> series_var(d.data[c])],
            min   |-> sorted(dropna(d.data[c]))[1],
            max   |-> sorted(dropna(d.data[c]))[Len(dropna(d.data[c]))]]>>
    ELSE <<>>

\* lines 170-179: one entry for each numeric column of raw_df with missing
\* values
RECURSIVE missing_lines(_, _, _)
missing_lines(raw, cleaned, columns) ==
    IF columns = <<>> THEN <<>>
    ELSE (IF sum(isna(raw.data[Head(columns)])) > 0
          THEN <<[column         |-> Head(columns),
                  missing_before |-> sum(isna(raw.data[Head(columns)])),
                  percentage     |-> RMul(Rat(sum(isna(raw.data[Head(columns)])), len(raw)), Num(100)),
                  missing_after  |-> IF HasColumn(cleaned, Head(columns))
                                     THEN sum(isna(cleaned.data[Head(columns)]))
                                     ELSE sum(isna(raw.data[Head(columns)]))]>>
          ELSE <<>>)
         \o missing_lines(raw, cleaned, Tail(columns))

\* lines 185-194: the outlier section, <<>> when outlier_info is empty
outlier_lines(outlier_info, columns) ==
    IF DOMAIN outlier_info = {} THEN <<>>
    ELSE <<[total_outliers |-> count_total(outlier_info, columns),
            columns        |-> SelectSeq(columns, LAMBDA c : c \in DOMAIN outlier_info
                                                             /\ outlier_info[c].count > 0)]>>

\* lines 200-205: the processing summary
summary_lines(raw, cleaned, numeric_cols) ==
    [rows    |-> len(raw),
     columns |-> Len(numeric_cols),
     fixed   |-> missing_total(raw, numeric_cols) - missing_total(cleaned, numeric_cols),
     quality |-> RMul(Rat(missing_total(raw, numeric_cols) - missing_total(cleaned, numeric_cols),
                          IF missing_total(raw, numeric_cols) > 1
                          THEN missing_total(raw, numeric_cols) ELSE 1),
                      Num(100))]

\* lines 121-216: the built-in generate_quality_report; the report is held
\* by the figures its lines are formatted from.  The mean of a text column
\* raises TypeError before the file is written
builtin_quality_report(raw, cleaned, c, outlier_info, now) ==
    IF (HasColumn(raw, c) /\ mean_raises(raw.data[c]))
       \/ (HasColumn(cleaned, c) /\ mean_raises(cleaned.data[c]))
    THEN Raised("TypeError")
    ELSE Returned([generated_at  |-> now,
                   raw_shape     |-> shape(raw),
                   cleaned_shape |-> shape(cleaned),
                   columns       |-> raw.columns,
                   column        |-> c,
                   raw_data      |-> column_figures(raw, c),
                   cleaned_data  |-> column_figures(cleaned, c),
                   missing       |-> missing_lines(raw, cleaned, select_dtypes_number(raw)),
                   outliers      |-> outlier_lines(outlier_info, raw.columns),
                   summary       |-> summary_lines(raw, cleaned, select_dtypes_number(raw))])

\* the result of generate_full_report as the outcome of the convenience
\* function: the saved report, or the exception
saved_report(r) == IF r.out.kind = "raise" THEN r.out ELSE Returned(r.out.value)

\* report_generator lines 464-485: generate_quality_report builds a
\* generator, runs generate_full_report and saves the report as text.  The
\* statistics of a text column raise TypeError (Series.mean), in the basic
\* statistics and in the automatic outlier detection on 'temperature'
generate_quality_report(raw, cleaned, c, outlier_mask, now) ==
    IF (HasColumn(raw, c) /\ mean_raises(raw.data[c]))
       \/ (HasColumn(cleaned, c) /\ mean_raises(cleaned.data[c]))
       \/ (outlier_mask = <<>> /\ HasColumn(raw, "temperature") /\ mean_raises(raw.data["temperature"]))
    THEN Raised("TypeError")
    ELSE saved_report(generate_full_report(NewGenerator(raw, cleaned), c, outlier_mask, now))

-----------------------------------------------------------------------------
(* The parts of the state a script does not use *)

NoFrame == [columns |-> <<>>, index |-> "RangeIndex", nrows |-> 0, ts_dtype |-> "none", data |-> <<>>]

ImputeIdle ==
    /\ df = NoFrame
    /\ column = "temperature"
    /\ max_gap = <<>>
    /\ method = "linear"
    /\ stats = NotCalled
    /\ imputed = NotCalled
    /\ stats2 = NotCalled
    /\ skipped = <<>>
    /\ op = ""
    /\ report_arg = TRUE

GenIdle ==
    /\ gen = <<>>
    /\ genOut = NotCalled

DetIdle ==
    /\ det = <<>>
    /\ detOut = NotCalled
    /\ data_series = <<>>
    /\ baseline = <<>>

LoadIdle ==
    /\ file_path = <<>>
    /\ file = [kind |-> "absent"]
    /\ loaded = NotCalled

PipeIdle ==
    /\ disk = <<>>
    /\ env = <<>>
    /\ heap = <<>>
    /\ console = <<>>
    /\ ended = NotCalled

-----------------------------------------------------------------------------
(* The imputation script: analyse, impute, analyse again, report *)

InitImpute ==
    /\ LoadIdle
    /\ PipeIdle
    /\ pc = "start"
    /\ df \in Frames
    /\ column = "temperature"
    /\ max_gap \in MaxGaps
    /\ method \in Methods
    /\ stats = NotCalled
    /\ imputed = NotCalled
    /\ stats2 = NotCalled
    /\ skipped = <<>>
    /\ op = ""
    /\ report_arg = TRUE
    /\ GenIdle
    /\ DetIdle

GetMissingStats ==
    /\ pc = "start"
    /\ stats' = get_missing_stats(df, column)
    /\ pc' = "analysed"
    /\ UNCHANGED <<df, column, max_gap, method, imputed, stats2, skipped, op, report_arg, genVars, detVars, loadVars, pipeVars>>

LinearImpute ==
    /\ pc = "analysed"
    /\ imputed' = linear_impute(df, column, max_gap, method)
    /\ skipped' = skipped_gaps(df, column, max_gap)
    /\ pc' = IF imputed'.kind = "raise" THEN "raised" ELSE "imputed"
    /\ UNCHANGED <<df, column, max_gap, method, stats, stats2, op, report_arg, genVars, detVars, loadVars, pipeVars>>

GetMissingStatsAfter ==
    /\ pc = "imputed"
    /\ stats2' = get_missing_stats(imputed.value, column)
    /\ pc' = "reanalysed"
    /\ UNCHANGED <<df, column, max_gap, method, stats, imputed, skipped, op, report_arg, genVars, detVars, loadVars, pipeVars>>

NewReportGenerator ==
    /\ pc = "reanalysed"
    /\ gen' = NewGenerator(df, imputed.value)
    /\ pc' = "report"
    /\ UNCHANGED <<imputeVars, genOut, detVars, loadVars, pipeVars>>

GenerateMissingAnalysis ==
    /\ pc = "report"
    /\ genOut' = generate_missing_analysis(gen, column)
    /\ gen' = IF genOut'.kind = "return"
              THEN [gen EXCEPT !.report = SetSection(gen.report, "missing_analysis", genOut'.value)]
              ELSE gen
    /\ pc' = "done"
    /\ UNCHANGED <<imputeVars, detVars, loadVars, pipeVars>>

NextImpute ==
    \/ GetMissingStats
    \/ LinearImpute
    \/ GetMissingStatsAfter
    \/ NewReportGenerator
    \/ GenerateMissingAnalysis

Spec == InitImpute /\ [][NextImpute]_vars

-----------------------------------------------------------------------------
(* The report aggregator on any pair of raw and cleaned datasets *)

RepLen == 3     \* longest series of the enumerated pairs

ReportFrames == {Frame(k, s) : k \in {"temp", "ts_hum"}, s \in SeriesUpTo(RepLen)}

InitReport ==
    /\ LoadIdle
    /\ PipeIdle
    /\ pc = "report"
    /\ ImputeIdle
    /\ \E raw \in ReportFrames, cleaned \in ReportFrames : gen = NewGenerator(raw, cleaned)
    /\ genOut = NotCalled
    /\ DetIdle

NextReport == GenerateMissingAnalysis

SpecReport == InitReport /\ [][NextReport]_vars

-----------------------------------------------------------------------------
(* The detector *)

DetLen  == 3    \* longest series of the fit-then-detect script
CallLen == 2    \* longest series of the free call sequences

SigmaLevels == {-1, 0, 1, 2}

DetCells  == {NaN} \cup {Num(v) : v \in {1, 2, 3}}
DetSeries == UNION {[1..k -> DetCells] : k \in 0..DetLen}

CallSeries == SeriesUpTo(CallLen)

\* tests/test_3sigma.py line 39
test_data == <<Num(15), Num(16), Num(18), Num(17), Num(16), Num(55), Num(-25), Num(19), Num(18)>>

NewDetector ==
    /\ pc = "det_new"
    /\ \E k \in SigmaLevels : det' = ThreeSigmaDetector(k)
    /\ pc' = "det_ready"
    /\ UNCHANGED <<imputeVars, genVars, detOut, data_series, baseline, loadVars, pipeVars>>

\* the script fit(S); detect(S)
ScriptFit ==
    /\ pc = "det_ready"
    /\ data_series # <<>>
    /\ det' = fit(det, data_series[1])
    /\ detOut' = [op |-> "fit", arg |-> data_series[1], kind |-> "return"]
    /\ pc' = "det_fit"
    /\ UNCHANGED <<imputeVars, genVars, data_series, baseline, loadVars, pipeVars>>

ScriptDetect ==
    /\ pc = "det_fit"
    /\ LET r == detect(det, data_series[1])
       IN  /\ det' = r.det
           /\ detOut' = [op |-> "detect", arg |-> data_series[1], kind |-> "return",
                         value |-> r.anomalies]
    /\ pc' = "det_done"
    /\ UNCHANGED <<imputeVars, genVars, data_series, baseline, loadVars, pipeVars>>

\* the script of the test: generate_report(S) on the fresh detector
ScriptGenerateReport ==
    /\ pc = "det_ready"
    /\ data_series # <<>>
    /\ LET r == generate_report(det, data_series[1])
       IN  /\ det' = r.det
           /\ detOut' = [op |-> "generate_report", arg |-> data_series[1], kind |-> "return",
                         value |-> r.report]
    /\ pc' = "det_reported"
    /\ UNCHANGED <<imputeVars, genVars, data_series, baseline, loadVars, pipeVars>>

InitFitDetect ==
    /\ LoadIdle
    /\ PipeIdle
    /\ pc = "det_new"
    /\ ImputeIdle
    /\ GenIdle
    /\ det = <<>>
    /\ detOut = NotCalled
    /\ \E s \in DetSeries \cup {test_data} : data_series = <<s>>
    /\ baseline = <<>>

NextFitDetect == NewDetector \/ ScriptFit \/ ScriptDetect \/ ScriptGenerateReport

SpecFitDetect == InitFitDetect /\ [][NextFitDetect]_vars

\* any sequence of calls on one instance; baseline records the series of
\* the most recent fit call, or of the first call when that was no fit
CallFit ==
    /\ pc = "det_ready"
    /\ data_series = <<>>
    /\ \E s \in CallSeries :
         /\ det' = fit(det, s)
         /\ detOut' = [op |-> "fit", arg |-> s, kind |-> "return"]
         /\ baseline' = <<s>>
    /\ UNCHANGED <<pc, imputeVars, genVars, data_series, loadVars, pipeVars>>

CallDetect ==
    /\ pc = "det_ready"
    /\ data_series = <<>>
    /\ \E s \in CallSeries :
         LET r == detect(det, s)
         IN  /\ det' = r.det
             /\ detOut' = [op |-> "detect", arg |-> s, kind |-> "return", value |-> r.anomalies]
             /\ baseline' = IF baseline = <<>> THEN <<s>> ELSE baseline
    /\ UNCHANGED <<pc, imputeVars, genVars, data_series, loadVars, pipeVars>>

CallGenerateReport ==
    /\ pc = "det_ready"
    /\ data_series = <<>>
    /\ \E s \in CallSeries :
         LET r == generate_report(det, s)
         IN  /\ det' = r.det
             /\ detOut' = [op |-> "generate_report", arg |-> s, kind |-> "return", value |-> r.report]
             /\ baseline' = IF baseline = <<>> THEN <<s>> ELSE baseline
    /\ UNCHANGED <<pc, imputeVars, genVars, data_series, loadVars, pipeVars>>

InitDetector ==
    /\ LoadIdle
    /\ PipeIdle
    /\ pc = "det_new"
    /\ ImputeIdle
    /\ GenIdle
    /\ DetIdle

NextDetector == NewDetector \/ CallFit \/ CallDetect \/ CallGenerateReport

SpecDetector == InitDetector /\ [][NextDetector]_vars

-----------------------------------------------------------------------------
(* One direct call of a function of the imputation module *)

HandLen == 3    \* longest enumerated series of the direct calls

\* twenty hourly rows: long enough for a rolling window of two rows
Example4 == [i \in 1..20 |-> IF i \in {5, 6, 7, 12} THEN NaN ELSE Num(1 + (i % 3))]

HandleFrames ==
    {Frame(k, s) : k \in {"ts_temp", "csv_temp", "temp", "ts_hum", "temp_ts", "ts_temp_hour"},
                   s \in SeriesUpTo(HandLen) \cup Examples \cup {Example4}}

\* the names handle_missing_values dispatches on, and one it does not know
HandleMethods == Methods \cup {"seasonal", "rolling_mean", "cubic"}

HandleMaxGaps == {<<>>, <<1>>, <<DefaultMaxGap>>}

InitHandle ==
    /\ LoadIdle
    /\ PipeIdle
    /\ pc = "call"
    /\ df \in HandleFrames
    /\ column = "temperature"
    /\ max_gap \in HandleMaxGaps
    /\ method \in HandleMethods
    /\ stats = NotCalled
    /\ imputed = NotCalled
    /\ stats2 = NotCalled
    /\ skipped = <<>>
    /\ op = ""
    /\ report_arg \in BOOLEAN
    /\ GenIdle
    /\ DetIdle

\* get_missing_stats only reads its argument
CallGetMissingStats ==
    /\ pc = "call"
    /\ op' = "get_missing_stats"
    /\ stats' = get_missing_stats(df, column)
    /\ pc' = "called"
    /\ UNCHANGED <<df, column, max_gap, method, imputed, stats2, skipped, report_arg, genVars, detVars, loadVars, pipeVars>>

CallLinearImpute ==
    /\ pc = "call"
    /\ op' = "linear_impute"
    /\ imputed' = linear_impute(df, column, max_gap, method)
    /\ df' = arg_after(df_copy(df), df, imputed')
    /\ pc' = "called"
    /\ UNCHANGED <<column, max_gap, method, stats, stats2, skipped, report_arg, genVars, detVars, loadVars, pipeVars>>

CallAdvancedImpute ==
    /\ pc = "call"
    /\ op' = "advanced_impute"
    /\ imputed' = advanced_impute(df, column, method)
    /\ df' = arg_after(df_copy(df), df, imputed')
    /\ pc' = "called"
    /\ UNCHANGED <<column, max_gap, method, stats, stats2, skipped, report_arg, genVars, detVars, loadVars, pipeVars>>

\* handle_missing_values hands its own argument on to the function it
\* dispatches to, once the first report block is passed
CallHandleMissingValues ==
    /\ pc = "call"
    /\ op' = "handle_missing_values"
    /\ imputed' = handle_missing_values(df, column, method, max_gap, report_arg)
    /\ df' = IF report_arg /\ "total_missing" \notin DOMAIN get_missing_stats(df, column).value
             THEN df
             ELSE arg_after(df_copy(df), df, dispatch(df, column, method, max_gap))
    /\ pc' = "called"
    /\ UNCHANGED <<column, max_gap, method, stats, stats2, skipped, report_arg, genVars, detVars, loadVars, pipeVars>>

NextHandle ==
    \/ CallGetMissingStats
    \/ CallLinearImpute
    \/ CallAdvancedImpute
    \/ CallHandleMissingValues

SpecHandle == InitHandle /\ [][NextHandle]_vars

-----------------------------------------------------------------------------
(* The two gap statistics, called on the same dataset and column *)

StatsColumns == {"temperature", "humidity"}

InitStats ==
    /\ LoadIdle
    /\ PipeIdle
    /\ pc = "stats_ready"
    /\ df \in HandleFrames
    /\ column \in StatsColumns
    /\ max_gap = <<DefaultMaxGap>>
    /\ method = "linear"
    /\ stats = NotCalled
    /\ imputed = NotCalled
    /\ stats2 = NotCalled
    /\ skipped = <<>>
    /\ op = ""
    /\ report_arg = FALSE
    /\ GenIdle
    /\ DetIdle

\* imputation.get_missing_stats(df, column)
CallModuleStats ==
    /\ pc = "stats_ready"
    /\ op' = "get_missing_stats"
    /\ stats' = get_missing_stats(df, column)
    /\ pc' = "stats_module_done"
    /\ UNCHANGED <<df, column, max_gap, method, imputed, stats2, skipped, report_arg, genVars, detVars, loadVars, pipeVars>>

\* QualityReportGenerator._get_missing_stats(df, column)
CallGeneratorStats ==
    /\ pc = "stats_module_done"
    /\ op' = "_get_missing_stats"
    /\ stats2' = _get_missing_stats(df, column)
    /\ pc' = "stats_done"
    /\ UNCHANGED <<df, column, max_gap, method, stats, imputed, skipped, report_arg, genVars, detVars, loadVars, pipeVars>>

NextStats ==
    \/ CallModuleStats
    \/ CallGeneratorStats

SpecStats == InitStats /\ [][NextStats]_vars

-----------------------------------------------------------------------------
(* Any sequence of calls on one report generator *)

GenLen == 2     \* longest series of the generator's datasets

GenFrames == {Frame(k, s) : k \in {"temp", "ts_hum"}, s \in SeriesUpTo(GenLen)}

\* clock readings of datetime.now()
Times == {"2026-01-01 00:00:00", "2026-01-01 00:00:01"}

\* None, or a boolean series over the rows of d: one flagging no row and
\* one flagging the first row
Masks(d) ==
    {<<>>} \cup {<<[i \in 1..d.nrows |-> i <= k]>> : k \in 0..(IF d.nrows > 0 THEN 1 ELSE 0)}

\* the cleaned dataset handed over with raw: raw as it is, or raw after
\* linear imputation
CleanedOf(raw) ==
    LET r == linear_impute(raw, "temperature", <<>>, "linear")
    IN  {raw} \cup (IF r.kind = "return" THEN {r.value} ELSE {})

InitGenerator ==
    /\ LoadIdle
    /\ PipeIdle
    /\ pc = "gen_ready"
    /\ ImputeIdle
    /\ \E raw \in GenFrames : \E cleaned \in CleanedOf(raw) : gen = NewGenerator(raw, cleaned)
    /\ genOut = NotCalled
    /\ DetIdle

\* a method that returned value after storing it in the report under key
MethodReturned(name, key, value) ==
    /\ gen' = [gen EXCEPT !.report = SetSection(gen.report, key, value)]
    /\ genOut' = [op |-> name, kind |-> "return", value |-> value]

\* a method with outcome r: the report is written only when it returned
MethodOutcome(name, key, r) ==
    IF r.kind = "return"
    THEN MethodReturned(name, key, r.value)
    ELSE /\ gen' = gen
         /\ genOut' = [op |-> name, kind |-> "raise", exc |-> r.exc]

\* generate_full_report with result r = [gen, out, printed]
FullReportOutcome(r) ==
    /\ gen' = r.gen
    /\ genOut' = IF r.out.kind = "return"
                 THEN [op |-> "generate_full_report", kind |-> "return",
                       value |-> r.out.value, printed |-> r.printed]
                 ELSE [op |-> "generate_full_report", kind |-> "raise", exc |-> r.out.exc]

CallGenerateBasicStats ==
    /\ pc = "gen_ready"
    /\ MethodReturned("generate_basic_stats", "basic_stats", generate_basic_stats(gen, column))
    /\ UNCHANGED <<pc, imputeVars, detVars, loadVars, pipeVars>>

CallGenerateMissingAnalysis ==
    /\ pc = "gen_ready"
    /\ MethodOutcome("generate_missing_analysis", "missing_analysis",
                     generate_missing_analysis(gen, column))
    /\ UNCHANGED <<pc, imputeVars, detVars, loadVars, pipeVars>>

CallGenerateOutlierAnalysis ==
    /\ pc = "gen_ready"
    /\ \E outlier_mask \in Masks(gen.raw_df) :
         MethodReturned("generate_outlier_analysis", "outlier_analysis",
                        generate_outlier_analysis(gen, outlier_mask))
    /\ UNCHANGED <<pc, imputeVars, detVars, loadVars, pipeVars>>

CallGenerateDataQualitySummary ==
    /\ pc = "gen_ready"
    /\ \E now \in Times :
         MethodReturned("generate_data_quality_summary", "summary",
                        generate_data_quality_summary(gen, now))
    /\ UNCHANGED <<pc, imputeVars, detVars, loadVars, pipeVars>>

CallGenerateFullReport ==
    /\ pc = "gen_ready"
    /\ \E outlier_mask \in Masks(gen.raw_df), now \in Times :
         FullReportOutcome(generate_full_report(gen, column, outlier_mask, now))
    /\ UNCHANGED <<pc, imputeVars, detVars, loadVars, pipeVars>>

NextGenerator ==
    \/ CallGenerateBasicStats
    \/ CallGenerateMissingAnalysis
    \/ CallGenerateOutlierAnalysis
    \/ CallGenerateDataQualitySummary
    \/ CallGenerateFullReport

SpecGenerator == InitGenerator /\ [][NextGenerator]_vars

-----------------------------------------------------------------------------
(* The quality script: statistics, linear imputation, detector report and
   full report on one dataset that holds the target column *)

QualLen == 3    \* longest enumerated series of the quality script

QualityFrames ==
    {Frame(k, s) : k \in {"ts_temp", "csv_temp", "temp"}, s \in SeriesUpTo(QualLen) \cup Examples}

InitQuality ==
    /\ LoadIdle
    /\ PipeIdle
    /\ pc = "q_start"
    /\ df \in QualityFrames
    /\ column = "temperature"
    /\ max_gap \in HandleMaxGaps
    /\ method = "linear"
    /\ stats = NotCalled
    /\ imputed = NotCalled
    /\ stats2 = NotCalled
    /\ skipped = <<>>
    /\ op = ""
    /\ report_arg = TRUE
    /\ GenIdle
    /\ DetIdle

QualityGetMissingStats ==
    /\ pc = "q_start"
    /\ stats' = get_missing_stats(df, column)
    /\ pc' = "q_analysed"
    /\ UNCHANGED <<df, column, max_gap, method, imputed, stats2, skipped, op, report_arg, genVars, detVars, loadVars, pipeVars>>

QualityLinearImpute ==
    /\ pc = "q_analysed"
    /\ imputed' = linear_impute(df, column, max_gap, method)
    /\ skipped' = skipped_gaps(df, column, max_gap)
    /\ df' = arg_after(df_copy(df), df, imputed')
    /\ pc' = "q_imputed"
    /\ UNCHANGED <<column, max_gap, method, stats, stats2, op, report_arg, genVars, detVars, loadVars, pipeVars>>

\* generate_report on a fresh detector over the raw column
QualityDetectorReport ==
    /\ pc = "q_imputed"
    /\ \E k \in {2, 3} :
         LET r == generate_report(ThreeSigmaDetector(k), df.data[column])
         IN  /\ det' = r.det
             /\ detOut' = [op |-> "generate_report", arg |-> df.data[column], kind |-> "return",
                           value |-> r.report]
    /\ pc' = "q_detected"
    /\ UNCHANGED <<imputeVars, genVars, data_series, baseline, loadVars, pipeVars>>

\* generate_full_report on the raw and the imputed dataset, with no mask or
\* with the detector's flags
QualityFullReport ==
    /\ pc = "q_detected"
    /\ imputed.kind = "return"
    /\ \E outlier_mask \in {<<>>, <<detect(det, df.data[column]).anomalies>>}, now \in Times :
         FullReportOutcome(generate_full_report(NewGenerator(df, imputed.value), column,
                                                outlier_mask, now))
    /\ pc' = "q_reported"
    /\ UNCHANGED <<imputeVars, detVars, loadVars, pipeVars>>

NextQuality ==
    \/ QualityGetMissingStats
    \/ QualityLinearImpute
    \/ QualityDetectorReport
    \/ QualityFullReport

SpecQuality == InitQuality /\ [][NextQuality]_vars

-----------------------------------------------------------------------------
(* One call of the loader on any path *)

LoadRows == 2     \* most data rows of a file

Paths == {<<"d", ".", "c", "s", "v">>,
          <<"d", ".", "x", "l", "s", "x">>,
          <<"d", ".", "t", "x", "t">>,
          <<"d", ".", "C", "S", "V">>,
          <<"c", "s", "v">>,
          <<"d", ".", "c", "s", "v", ".", "b", "a", "k">>}

CellTexts == {"", "1", "3", "x"}

\* the lines of a file: none at all, or a header and up to n rows
LinesUpTo(n) ==
    {<<>>}
    \cup UNION {{<<<<"temperature">>>> \o [i \in 1..k |-> <<r[i]>>] : r \in [1..k -> CellTexts]}
                : k \in 0..n}
    \cup UNION {{<<<<"timestamp", "temperature">>>> \o [i \in 1..k |-> <<"2026-01-01 00:00:00", r[i]>>]
                    : r \in [1..k -> CellTexts]}
                : k \in 0..n}

\* what a path may name; a file named .csv holds text and a file named
\* .xlsx a workbook, other names hold either
EntriesAt(path, n) ==
    {[kind |-> "absent"], [kind |-> "dir"]}
    \cup {[kind |-> "file", format |-> f, lines |-> l] :
            f \in (IF endswith(path, <<".", "c", "s", "v">>) THEN {"text"}
                   ELSE IF endswith(path, <<".", "x", "l", "s", "x">>) THEN {"workbook"}
                   ELSE {"text", "workbook"}),
            l \in LinesUpTo(n)}

InitLoad ==
    /\ pc = "load_ready"
    /\ ImputeIdle
    /\ GenIdle
    /\ DetIdle
    /\ PipeIdle
    /\ file_path \in Paths
    /\ file \in EntriesAt(file_path, LoadRows)
    /\ loaded = NotCalled

CallLoadWeatherData ==
    /\ pc = "load_ready"
    /\ loaded' = load_weather_data(file_path, file)
    /\ pc' = "load_done"
    /\ UNCHANGED <<imputeVars, genVars, detVars, file_path, file, pipeVars>>

NextLoad ==
    \/ CallLoadWeatherData

SpecLoad == InitLoad /\ [][NextLoad]_vars

-----------------------------------------------------------------------------
(* The pipeline script, from the check of the modules directory to the
   final summary *)

PipeRows == 2     \* most data rows of an enumerated data file

\* names[name] = value
Bind(names, name, value) ==
    [k \in {name} \cup DOMAIN names |-> IF k = name THEN value ELSE names[k]]

\* sys.exit(code)
Exit(code) == [kind |-> "exit", code |-> code]

demo_data_path    == <<"d", "e", "m", "o", "_", "d", "a", "t", "a", ".", "c", "s", "v">>
weather_data_path == <<"w", "e", "a", "t", "h", "e", "r", ".", "c", "s", "v">>

\* twelve readings, the last one far from the others
OutlierLines ==
    <<<<"temperature">>>> \o [i \in 1..12 |-> IF i = 6 THEN <<"">> ELSE IF i = 12 THEN <<"55">> ELSE <<"1">>]

\* the lines of the data files: one text or number column, with or without
\* timestamps, or two columns
PipeLines(n) ==
    LinesUpTo(n)
    \cup UNION {{<<<<"temperature", "humidity">>>> \o [i \in 1..k |-> <<r[i], h[i]>>]
                    : r \in [1..k -> {"", "1", "x"}], h \in [1..k -> {"", "3"}]}
                : k \in 1..n}
    \cup {OutlierLines}

DataFiles(n) == {[kind |-> "file", format |-> "text", lines |-> l] : l \in PipeLines(n)}

\* the module files found in src/date and the ones whose import raises;
\* quality_check.py is looked for and never imported
ModuleSets ==
    {[found |-> f, broken |-> b] :
        f \in SUBSET {"loader", "imputation", "report_generator"},
        b \in {{}, {"loader"}, {"imputation"}, {"report_generator"}}}

InitPipeline ==
    /\ pc = "p_start"
    /\ ImputeIdle
    /\ GenIdle
    /\ DetIdle
    /\ LoadIdle
    /\ \E dir \in BOOLEAN, ms \in ModuleSets,
          demo \in {[kind |-> "absent"], [kind |-> "dir"]} \cup DataFiles(PipeRows),
          weather \in {[kind |-> "absent"],
                        [kind |-> "file", format |-> "text", lines |-> <<<<"temperature">>, <<"1">>>>]} :
          /\ ms.broken \subseteq ms.found
          /\ (~dir => ms.found = {} /\ demo.kind = "absent" /\ weather.kind = "absent")
          /\ (demo.kind = "file" => weather.kind = "absent")
          /\ disk = [src_date_dir  |-> dir,
                     module_files  |-> ms.found,
                     broken        |-> ms.broken,
                     demo_data     |-> demo,
                     weather_data  |-> weather,
                     report_file   |-> <<>>]
    /\ env = <<>>
    /\ heap = <<>>
    /\ console = <<>>
    /\ ended = NotCalled

\* lines 20-22
CheckModulesDir ==
    /\ pc = "p_start"
    /\ IF disk.src_date_dir
       THEN pc' = "p_dir_ok" /\ ended' = ended
       ELSE pc' = "p_exit" /\ ended' = Exit(1)
    /\ UNCHANGED <<imputeVars, genVars, detVars, loadVars, disk, env, heap, console>>

\* lines 26-224: the module files found are recorded, loader and imputation
\* are imported and the built-in functions defined; an exception of an
\* import ends the run
ImportModules ==
    /\ pc = "p_dir_ok"
    /\ env' = Bind(env, "modules", disk.module_files)
    /\ IF disk.broken \cap {"loader", "imputation"} = {}
       THEN pc' = "p_imported" /\ ended' = ended
       ELSE pc' = "p_exit" /\ ended' = Exit(1)
    /\ UNCHANGED <<imputeVars, genVars, detVars, loadVars, disk, heap, console>>

\* lines 232-254
ChooseDataFile ==
    /\ pc = "p_imported"
    /\ IF exists(disk.demo_data)
       THEN /\ env' = Bind(Bind(env, "data_path", demo_data_path), "data_source", "demo_data.csv")
            /\ pc' = "p_chosen" /\ ended' = ended
       ELSE IF exists(disk.weather_data)
       THEN /\ env' = Bind(Bind(env, "data_path", weather_data_path), "data_source", "weather.csv")
            /\ pc' = "p_chosen" /\ ended' = ended
       ELSE /\ env' = Bind(Bind(env, "data_path", None), "data_source", "")
            /\ pc' = "p_exit" /\ ended' = Exit(1)
    /\ UNCHANGED <<imputeVars, genVars, detVars, loadVars, disk, heap, console>>

\* what data_path names
data_entry == IF env["data_path"] = demo_data_path THEN disk.demo_data ELSE disk.weather_data

\* lines 267-273 on the loaded frame d: the numeric columns, all columns
\* when there is none
numeric_cols_of(d) ==
    IF select_dtypes_number(d) = <<>> THEN d.columns ELSE select_dtypes_number(d)

\* lines 263-280 with the outcome r of the load: the frame becomes object 1
Loaded(r) ==
    /\ loaded' = r
    /\ IF r.kind = "return" /\ r.value.columns # <<>>
       THEN /\ heap' = <<r.value>>
            /\ env' = Bind(Bind(Bind(env, "raw_df", 1),
                                 "numeric_cols", numeric_cols_of(r.value)),
                            "target_col", numeric_cols_of(r.value)[1])
            /\ console' = Append(console, "load: ok")
            /\ pc' = "p_loaded" /\ ended' = ended
       ELSE /\ heap' = IF r.kind = "return" THEN <<r.value>> ELSE heap
            /\ env' = IF r.kind = "return" THEN Bind(env, "raw_df", 1) ELSE env
            /\ console' = Append(console, "load: failed")
            /\ pc' = "p_exit" /\ ended' = Exit(1)

LoadData ==
    /\ pc = "p_chosen"
    /\ file_path' = env["data_path"]
    /\ file' = data_entry
    /\ Loaded(IF "loader" \in env["modules"]
              THEN load_weather_data(env["data_path"], data_entry)
              ELSE read_csv(data_entry))
    /\ UNCHANGED <<imputeVars, genVars, detVars, disk>>

\* lines 285-302 with the outcome r of three_sigma_detect: the except
\* clause binds outlier_info and target_outlier_mask, not total_outliers
Detected(r) ==
    IF r.kind = "return"
    THEN /\ env' = Bind(Bind(Bind(env, "outlier_info", r.value),
                              "total_outliers", count_total(r.value, env["numeric_cols"])),
                         "target_outlier_mask", mask_of(r.value, env["target_col"]))
         /\ console' = Append(console, "detect: ok")
    ELSE /\ env' = Bind(Bind(env, "outlier_info", <<>>), "target_outlier_mask", <<>>)
         /\ console' = Append(console, "detect: failed")

DetectOutliers ==
    /\ pc = "p_loaded"
    /\ Detected(three_sigma_detect(heap[env["raw_df"]], env["numeric_cols"], 3))
    /\ pc' = "p_detected"
    /\ UNCHANGED <<imputeVars, genVars, detVars, loadVars, disk, heap, ended>>

\* A reference is [heap, id]: the objects and the number of the one a name
\* refers to.  Put gives the reference to the frame d that a function
\* leaves behind, having worked on obj: a new object when obj is a copy, the
\* referenced object itself when obj is the argument
Put(ref, d, obj) ==
    IF obj = "copy"
    THEN [heap |-> Append(ref.heap, d), id |-> Len(ref.heap) + 1]
    ELSE [heap |-> [ref.heap EXCEPT ![ref.id] = d], id |-> ref.id]

\* line 305: cleaned_df = raw_df.copy()
CopyRaw ==
    /\ pc = "p_detected"
    /\ heap' = Put([heap |-> heap, id |-> env["raw_df"]], heap[env["raw_df"]],
                   df_copy(heap[env["raw_df"]])).heap
    /\ env' = Bind(env, "cleaned_df",
                   Put([heap |-> heap, id |-> env["raw_df"]], heap[env["raw_df"]],
                       df_copy(heap[env["raw_df"]])).id)
    /\ pc' = "p_copied"
    /\ UNCHANGED <<imputeVars, genVars, detVars, loadVars, disk, console, ended>>

\* lines 313-321 for one column: linear_impute gives the frame it worked
\* on, the fill without the module assigns into cleaned_df itself
impute_step(ref, col, use_module) ==
    IF sum(isna(ref.heap[ref.id].data[col])) = 0 THEN ref
    ELSE IF use_module
    THEN Put(ref, linear_impute(ref.heap[ref.id], col, <<5>>, "linear").value,
             df_copy(ref.heap[ref.id]))
    ELSE Put(ref, [ref.heap[ref.id] EXCEPT !.data[col] = fallback_fill(@)], "argument")

\* lines 312-321
RECURSIVE impute_loop(_, _, _)
impute_loop(ref, columns, use_module) ==
    IF columns = <<>> THEN ref
    ELSE impute_loop(impute_step(ref, Head(columns), use_module), Tail(columns), use_module)

\* lines 310-328 with the count before the loop and the reference the loop
\* leaves in cleaned_df
Imputed(before, ref) ==
    /\ heap' = ref.heap
    /\ env' = Bind(Bind(Bind(Bind(env, "missing_before_total", before),
                                   "cleaned_df", ref.id),
                              "missing_after_total", missing_total(ref.heap[ref.id], env["numeric_cols"])),
                         "fixed_count", before - missing_total(ref.heap[ref.id], env["numeric_cols"]))
    /\ console' = Append(console, "impute: ok")

ImputeMissing ==
    /\ pc = "p_copied"
    /\ Imputed(missing_total(heap[env["cleaned_df"]], env["numeric_cols"]),
               impute_loop([heap |-> heap, id |-> env["cleaned_df"]], env["numeric_cols"],
                           "imputation" \in env["modules"]))
    /\ pc' = "p_imputed"
    /\ UNCHANGED <<imputeVars, genVars, detVars, loadVars, disk, ended>>

\* lines 336-340 with the outcome r of zscore_normalize and the reference
\* its result leaves
Normalized(r, ref) ==
    IF r.kind = "return"
    THEN /\ heap' = ref.heap
         /\ env' = Bind(env, "cleaned_df", ref.id)
         /\ console' = Append(console, "normalize: ok")
    ELSE /\ heap' = heap
         /\ env' = env
         /\ console' = Append(console, "normalize: failed")

\* the reference zscore_normalize leaves for outcome r
normalized_ref(r) ==
    IF r.kind = "return"
    THEN Put([heap |-> heap, id |-> env["cleaned_df"]], r.value, df_copy(heap[env["cleaned_df"]]))
    ELSE [heap |-> heap, id |-> env["cleaned_df"]]

Normalize ==
    /\ pc = "p_imputed"
    /\ Normalized(zscore_normalize(heap[env["cleaned_df"]], env["numeric_cols"]),
                  normalized_ref(zscore_normalize(heap[env["cleaned_df"]], env["numeric_cols"])))
    /\ pc' = "p_normalized"
    /\ UNCHANGED <<imputeVars, genVars, detVars, loadVars, disk, ended>>

\* lines 345-389 with the outcome r of the report function: the report is
\* bound and saved only when the function returned
Reported(names, r) ==
    IF r.kind = "return"
    THEN /\ env' = Bind(names, "report", r.value)
         /\ disk' = [disk EXCEPT !.report_file = <<r.value>>]
         /\ console' = Append(console, "report: ok")
    ELSE /\ env' = names
         /\ disk' = disk
         /\ console' = Append(console, "report: failed")

\* lines 349-368: the module's function when report_generator.py was found
\* (its import may raise), the built-in one otherwise
report_outcome(now) ==
    IF "report_generator" \in env["modules"]
    THEN IF "report_generator" \in disk.broken THEN Raised("ImportError")
         ELSE generate_quality_report(heap[env["raw_df"]], heap[env["cleaned_df"]],
                                      env["target_col"], env["target_outlier_mask"], now)
    ELSE builtin_quality_report(heap[env["raw_df"]], heap[env["cleaned_df"]],
                                env["target_col"], env["outlier_info"], now)

GenerateReport ==
    /\ pc = "p_normalized"
    /\ \E now \in Times :
         Reported(Bind(Bind(env, "reports_dir", "reports"), "report_path", "reports/quality_report.txt"),
                  report_outcome(now))
    /\ pc' = "p_reported"
    /\ UNCHANGED <<imputeVars, genVars, detVars, loadVars, heap, ended>>

\* the names lines 395-399 read, in the order they are read
summary_names ==
    <<"data_source", "raw_df", "cleaned_df", "missing_before_total", "missing_after_total",
      "total_outliers">>

\* lines 391-406: a name that was never bound raises NameError, which
\* nothing catches
FinalSummary ==
    /\ pc = "p_reported"
    /\ IF \A i \in 1..Len(summary_names) : summary_names[i] \in DOMAIN env
       THEN /\ ended' = Exit(0)
            /\ console' = Append(console, "summary: printed")
       ELSE /\ ended' = Raised("NameError")
            /\ console' = Append(console, "summary: cut short")
    /\ pc' = "p_done"
    /\ UNCHANGED <<imputeVars, genVars, detVars, loadVars, disk, env, heap>>

NextPipeline ==
    \/ CheckModulesDir
    \/ ImportModules
    \/ ChooseDataFile
    \/ LoadData
    \/ DetectOutliers
    \/ CopyRaw
    \/ ImputeMissing
    \/ Normalize
    \/ GenerateReport
    \/ FinalSummary

SpecPipeline == InitPipeline /\ [][NextPipeline]_vars

-----------------------------------------------------------------------------
(* Properties: helpers that restate the specification's terms *)

\* the maximal runs of consecutive nulls of s, as <<first, last>> positions
NullRuns(s) ==
    {r \in (1..Len(s)) \X (1..Len(s)) :
        /\ r[1] <= r[2]
        /\ \A i \in r[1]..r[2] : IsNa(s[i])
        /\ (r[1] = 1 \/ ~IsNa(s[r[1] - 1]))
        /\ (r[2] = Len(s) \/ ~IsNa(s[r[2] + 1]))}

RunLen(r) == r[2] - r[1] + 1

\* the lengths of the maximal null runs in the order the runs occur: one
\* left-to-right scan, cur being the length of the run in progress
RECURSIVE ScanRuns(_, _, _, _)
ScanRuns(s, i, cur, acc) ==
    IF i > Len(s) THEN (IF cur > 0 THEN Append(acc, cur) ELSE acc)
    ELSE IF IsNa(s[i]) THEN ScanRuns(s, i + 1, cur + 1, acc)
    ELSE ScanRuns(s, i + 1, 0, IF cur > 0 THEN Append(acc, cur) ELSE acc)

RunLengths(s) == ScanRuns(s, 1, 0, <<>>)

NullCount(s) == Cardinality({i \in 1..Len(s) : IsNa(s[i])})

TargetIn  == df.data[column]
TargetOut == imputed.value.data[column]

PositiveGap == max_gap # <<>> /\ max_gap[1] > 0

-----------------------------------------------------------------------------
(* C1: with max_gap = m > 0, every position of every maximal null run longer
   than m is still null in linear_impute's output, and get_missing_stats on
   the output reports a run of that length.  Stated for the default method
   'linear', which is enough to decide it. *)
C1_LongRunsStayNull ==
    (pc = "reanalysed" /\ PositiveGap /\ method = "linear") =>
        \A r \in NullRuns(TargetIn) :
            RunLen(r) > max_gap[1] =>
                /\ \A i \in r[1]..r[2] : IsNa(TargetOut[i])
                /\ \E j \in 1..Len(stats2.value.gap_lengths) :
                       stats2.value.gap_lengths[j] = RunLen(r)

(* C2: with max_gap = m > 0, every position of every maximal null run of
   length at most m is non-null in linear_impute's output, wherever the run
   lies in the series.  Stated for the default method 'linear' and a column
   that holds at least one value, which is enough to decide it. *)
C2_ShortRunsFilled ==
    (imputed.kind = "return" /\ PositiveGap /\ method = "linear"
        /\ NullCount(TargetIn) < Len(TargetIn)) =>
        \A r \in NullRuns(TargetIn) :
            RunLen(r) <= max_gap[1] => \A i \in r[1]..r[2] : ~IsNa(TargetOut[i])

-----------------------------------------------------------------------------
\* the statistics dict st describes the null runs of series s
StatsDescribe(st, s) ==
    /\ st.gap_lengths = RunLengths(s)
    /\ st.gap_count = Cardinality(NullRuns(s))
    /\ \E r \in NullRuns(s) : st.max_gap_length = RunLen(r)
    /\ \A r \in NullRuns(s) : RunLen(r) <= st.max_gap_length
    /\ st.total_missing = SeqSum(RunLengths(s))
    /\ st.total_missing = NullCount(s)
    /\ st.missing_rate[1] * Len(s) = st.total_missing * st.missing_rate[2]
    /\ st.missing_rate[2] > 0

(* C5: for a column with at least one null, both gap-statistics functions
   return gap_lengths equal to the lengths of the maximal null runs in the
   order they occur, gap_count their number, max_gap_length the longest,
   total_missing their sum and missing_rate total_missing / len(series). *)
C5_GapStats ==
    /\ (stats.kind = "return" /\ HasColumn(df, column) /\ NullCount(TargetIn) > 0)
          => StatsDescribe(stats.value, TargetIn)
    /\ (pc = "done" /\ genOut.kind = "return" /\ NullCount(gen.raw_df.data[column]) > 0)
          => StatsDescribe(genOut.value.raw_data, gen.raw_df.data[column])
    /\ (pc = "done" /\ genOut.kind = "return" /\ NullCount(gen.cleaned_df.data[column]) > 0)
          => StatsDescribe(genOut.value.cleaned_data, gen.cleaned_df.data[column])

C5_Witness ==
    /\ stats.kind = "return"
    /\ HasColumn(df, column)
    /\ stats.value.gap_lengths = <<3, 1, 6>>
    /\ stats.value.max_gap_length = 6
    /\ stats.value.gap_count = 3

-----------------------------------------------------------------------------
(* C6: the statistics before and after linear_impute satisfy
   missing_after <= missing_before, no non-null position becomes null, and
   the aggregator's missing_fixed is missing_before - missing_after >= 0. *)
C6_MissingNeverGrows ==
    /\ imputed.kind = "return" =>
          \A i \in 1..Len(TargetIn) : ~IsNa(TargetIn[i]) => ~IsNa(TargetOut[i])
    /\ pc \in {"reanalysed", "report", "done"} =>
          stats2.value.total_missing <= stats.value.total_missing
    /\ pc = "done" =>
          /\ genOut.kind = "return"
          /\ genOut.value.summary.missing_fixed
                = stats.value.total_missing - stats2.value.total_missing
          /\ genOut.value.summary.missing_fixed >= 0

C6_Witness ==
    /\ pc = "done"
    /\ genOut.kind = "return"
    /\ genOut.value.summary.missing_fixed > 0
    /\ genOut.value.summary.missing_remaining > 0

-----------------------------------------------------------------------------
WithinLimit(n) == max_gap = <<>> \/ n <= max_gap[1]

(* C7: with method 'linear', a null run of length n between the non-null
   values a and b, within the gap limit, is filled so that its i-th position
   holds a + i*(b - a)/(n + 1), and every non-null input position keeps its
   value. *)
C7_LinearFill ==
    (imputed.kind = "return" /\ method = "linear") =>
        /\ \A r \in NullRuns(TargetIn) :
              (r[1] > 1 /\ r[2] < Len(TargetIn) /\ WithinLimit(RunLen(r))) =>
                  LET a == TargetIn[r[1] - 1]
                      b == TargetIn[r[2] + 1]
                  IN  \A i \in 1..RunLen(r) :
                          TargetOut[r[1] + i - 1]
                              = RAdd(a, Rat(i * RSub(b, a)[1], (RunLen(r) + 1) * RSub(b, a)[2]))
        /\ \A j \in 1..Len(TargetIn) : ~IsNa(TargetIn[j]) => TargetOut[j] = TargetIn[j]

C7_Witness ==
    /\ imputed.kind = "return"
    /\ method = "linear"
    /\ max_gap = <<DefaultMaxGap>>
    /\ TargetIn = Example2
    /\ TargetOut = <<Num(1), Num(2), Num(4), Num(6), Num(7)>>

-----------------------------------------------------------------------------
(* C10: for a column that is not in the dataset, get_missing_stats and
   generate_missing_analysis fail with a ColumnNotFound error raised to the
   caller: no normal result value, no unrelated lookup error. *)
C10_AbsentColumnRaises ==
    /\ (stats.kind # "none" /\ ~HasColumn(df, column))
          => (stats.kind = "raise" /\ stats.exc = "ColumnNotFound")
    /\ (genOut.kind # "none" /\ (~HasColumn(gen.raw_df, column) \/ ~HasColumn(gen.cleaned_df, column)))
          => (genOut.kind = "raise" /\ genOut.exc = "ColumnNotFound")

-----------------------------------------------------------------------------
(* C8: for raw and cleaned datasets that both contain the column,
   generate_missing_analysis returns (no division by zero) and reports
   improvement_percentage = (1 - cleaned_rate/raw_rate) * 100 with two
   decimals and a % sign when the raw missing rate is positive, and 100.00%
   when it is 0. *)
C8_ImprovementPercentage ==
    (pc = "done" /\ HasColumn(gen.raw_df, column) /\ HasColumn(gen.cleaned_df, column)) =>
        LET raw == gen.raw_df.data[column]
            cleaned == gen.cleaned_df.data[column]
            tr == NullCount(raw)
            tc == NullCount(cleaned)
            nr == Len(raw)
            nc == Len(cleaned)
        IN  /\ genOut.kind = "return"
            /\ genOut.value.summary.improvement_percentage =
                  IF tr > 0
                  THEN IF nc = 0 THEN "100.00%"
                       ELSE FormatPct(Rat(100 * (tr * nc - tc * nr), tr * nc))
                  ELSE "100.00%"

C8_Witness ==
    /\ pc = "done"
    /\ genOut.kind = "return"
    /\ genOut.value.raw_data.missing_rate = Rat(2, 3)
    /\ genOut.value.cleaned_data.missing_rate = Rat(1, 2)
    /\ genOut.value.summary.improvement_percentage = "25.00%"

-----------------------------------------------------------------------------
RECURSIVE IntSum(_)
IntSum(s) == IF s = <<>> THEN 0 ELSE Head(s) + IntSum(Tail(s))

\* the non-null values of an integer-valued series, as integers
IntValues(s) == [i \in 1..Len(dropna(s)) |-> dropna(s)[i][1]]

\* v > mean + k*std, resp. v < mean - k*std, with the mean and the sample
\* standard deviation of xs (n >= 2 values), for k > 0: both sides are
\* scaled by n and squared, so that only integers are compared
AboveUpper(v, k, xs) ==
    LET n == Len(xs)
        t == IntSum(xs)
        ss == IntSum([i \in 1..n |-> (n * xs[i] - t) * (n * xs[i] - t)])
    IN  n * v > t /\ (n * v - t) * (n * v - t) * (n - 1) > k * k * ss
BelowLower(v, k, xs) ==
    LET n == Len(xs)
        t == IntSum(xs)
        ss == IntSum([i \in 1..n |-> (n * xs[i] - t) * (n * xs[i] - t)])
    IN  n * v < t /\ (n * v - t) * (n * v - t) * (n - 1) > k * k * ss

(* C3: for sigma level k > 0, detect(S) right after fit(S) flags position i
   exactly when S[i] is non-null and S[i] > mean + k*std or S[i] < mean - k*std
   (mean and sample std over the non-null values of S); a value equal to a
   bound and a null are not flagged.  With fewer than two non-null values
   the sample std is undefined and nothing is flagged. *)
C3_DetectFlagsExactly ==
    (pc = "det_done" /\ det.sigma_level > 0) =>
        LET S  == data_series[1]
            k  == det.sigma_level
            xs == IntValues(S)
        IN  /\ Len(detOut.value) = Len(S)
            /\ \A i \in 1..Len(S) :
                  detOut.value[i] =
                     (/\ ~IsNa(S[i])
                      /\ Len(xs) >= 2
                      /\ (AboveUpper(S[i][1], k, xs) \/ BelowLower(S[i][1], k, xs)))

C3_Witness ==
    /\ pc = "det_done"
    /\ det.sigma_level = 1
    /\ data_series[1] = <<Num(1), Num(1), Num(3)>>
    /\ detOut.value = <<FALSE, FALSE, TRUE>>

\* a value equal to a bound is reached and not flagged
C3_WitnessOnBound ==
    /\ pc = "det_done"
    /\ det.sigma_level = 1
    /\ data_series[1] = <<Num(1), Num(2), Num(3)>>
    /\ detOut.value = <<FALSE, FALSE, FALSE>>

-----------------------------------------------------------------------------
(* C4: over any sequence of fit, detect and generate_report calls on one
   detector, the stored thresholds are those computed from the series of the
   most recent fit call or, when fit was never called, of the first
   detect/generate_report call; a later detect or generate_report on other
   data classifies against them and leaves them as they are. *)
C4_StickyThresholds ==
    det # <<>> =>
        /\ baseline = <<>> => det.thresholds = <<>>
        /\ baseline # <<>> =>
              LET th == thresholds_of(det.sigma_level, baseline[1])
              IN  /\ det.thresholds = th
                  /\ (detOut.kind = "return" /\ detOut.op = "detect") =>
                        detOut.value = [i \in 1..Len(detOut.arg) |-> is_anomaly(detOut.arg[i], th)]
                  /\ (detOut.kind = "return" /\ detOut.op = "generate_report") =>
                        /\ detOut.value.thresholds = th
                        /\ detOut.value.anomaly_count
                              = Cardinality({i \in 1..Len(detOut.arg) : is_anomaly(detOut.arg[i], th)})

\* thresholds fit on [1, 1] classify the later series [1, 3], whose own
\* thresholds would flag nothing
C4_Witness ==
    /\ det # <<>>
    /\ det.sigma_level = 1
    /\ baseline = <<(<<Num(1), Num(1)>>)>>
    /\ detOut.kind = "return"
    /\ detOut.op = "detect"
    /\ detOut.arg = <<Num(1), Num(3)>>
    /\ detOut.value = <<FALSE, TRUE>>

-----------------------------------------------------------------------------
(* C9: a detector whose sigma level is zero or negative fails with an
   InvalidConfiguration error before any thresholds are stored or any
   classification is returned. *)
C9_NonPositiveSigmaRejected ==
    (det # <<>> /\ det.sigma_level <= 0) =>
        /\ det.thresholds = <<>>
        /\ detOut.kind # "return"

-----------------------------------------------------------------------------
(* C11: linear_impute, advanced_impute and handle_missing_values fail with
   the column error (the ValueError of lines 28 and 104, the module's
   ColumnNotFound) when the target column is absent, for every method and
   max_gap; handle_missing_values with report=True raises this column error
   too, not a different error from its statistics printing. *)
C11_AbsentColumnError ==
    (op \in {"linear_impute", "advanced_impute", "handle_missing_values"}
        /\ ~HasColumn(df, column)) =>
        (imputed.kind = "raise" /\ imputed.exc = "ValueError")

-----------------------------------------------------------------------------
(* C12: linear_impute with method 'time' on a dataset that has no timestamp
   column fails with a MissingTimeIndex error; the column is not silently
   filled with another method.  Stated for a present target column that
   holds a null and a value, the case in which the method dispatch is
   reached and has something to fill from. *)
C12_TimeWithoutTimestamps ==
    (op = "linear_impute" /\ method = "time" /\ HasColumn(df, column)
        /\ ~HasColumn(df, "timestamp")
        /\ NullCount(TargetIn) > 0 /\ NullCount(TargetIn) < Len(TargetIn)) =>
        (imputed.kind = "raise" /\ imputed.exc = "MissingTimeIndex")

-----------------------------------------------------------------------------
\* the method names each function documents or dispatches on
SupportedBy(o) ==
    IF o = "linear_impute" THEN {"linear", "time", "pad", "nearest"}
    ELSE {"linear", "time", "pad", "nearest", "seasonal", "rolling_mean", "spline"}

(* C13: a method name that is not one of the supported ones, passed to
   linear_impute or handle_missing_values, fails with an
   InvalidConfiguration error raised to the caller; no dataset is returned.
   Stated for a present target column that holds a null and a value. *)
C13_UnsupportedMethodRejected ==
    (op \in {"linear_impute", "handle_missing_values"} /\ HasColumn(df, column)
        /\ NullCount(TargetIn) > 0 /\ NullCount(TargetIn) < Len(TargetIn)
        /\ method \notin SupportedBy(op)) =>
        (imputed.kind = "raise" /\ imputed.exc = "InvalidConfiguration")

-----------------------------------------------------------------------------
\* the call reached interpolate() and it raised: time-weighted interpolation
\* over timestamps that are not datetimes
InterpolationRaised ==
    /\ op = "linear_impute"
    /\ HasColumn(df, column)
    /\ NullCount(TargetIn) > 0
    /\ method = "time"
    /\ HasColumn(df, "timestamp")
    /\ df.ts_dtype = "object"

(* C14: when the chosen interpolation method raises inside linear_impute, no
   exception reaches the caller: a dataset is returned whose column is the
   input filled forward and then backward (every null takes the nearest
   value before it, or the first value after it when none precedes), so the
   column has no null whenever the input column has a non-null value. *)
C14_FallbackFill ==
    InterpolationRaised =>
        /\ imputed.kind = "return"
        /\ Len(TargetOut) = Len(TargetIn)
        /\ \A i \in 1..Len(TargetIn) :
              TargetOut[i] =
                 IF ~IsNa(TargetIn[i]) THEN TargetIn[i]
                 ELSE IF \E j \in 1..i : ~IsNa(TargetIn[j])
                      THEN TargetIn[CHOOSE j \in 1..i :
                              ~IsNa(TargetIn[j]) /\ \A k \in (j + 1)..i : IsNa(TargetIn[k])]
                 ELSE IF \E j \in i..Len(TargetIn) : ~IsNa(TargetIn[j])
                      THEN TargetIn[CHOOSE j \in i..Len(TargetIn) :
                              ~IsNa(TargetIn[j]) /\ \A k \in i..(j - 1) : IsNa(TargetIn[k])]
                 ELSE NaN
        /\ NullCount(TargetIn) < Len(TargetIn) => NullCount(TargetOut) = 0

\* a leading and a trailing null are both filled by the fallback, and the
\* timestamps stay in the index
C14_Witness ==
    /\ InterpolationRaised
    /\ TargetIn = <<NaN, Num(3), NaN>>
    /\ imputed.kind = "return"
    /\ TargetOut = <<Num(3), Num(3), Num(3)>>
    /\ imputed.value.index = "timestamp"

-----------------------------------------------------------------------------
\* all non-null values of s are equal, and there are at least two
IsConstant(s) ==
    /\ Len(dropna(s)) >= 2
    /\ \A i \in 1..Len(dropna(s)) : dropna(s)[i] = dropna(s)[1]

\* the bound base + coef * sqrt(rad) is the number c
BoundIs(b, c) == b.base = c /\ (b.coef = 0 \/ b.rad = Num(0))

(* C15: when the detector is fit on a constant series (all non-null values
   equal to c, at least two of them), the upper and lower bounds both equal
   c; detect flags no position of that series, and a later detect on any
   series flags exactly the positions holding a non-null value different
   from c. *)
C15_ConstantSeries ==
    (det # <<>> /\ baseline # <<>> /\ IsConstant(baseline[1])) =>
        LET c == dropna(baseline[1])[1]
        IN  /\ BoundIs(det.thresholds.upper_bound, c)
            /\ BoundIs(det.thresholds.lower_bound, c)
            /\ (detOut.kind = "return" /\ detOut.op = "detect") =>
                  /\ detOut.value = [i \in 1..Len(detOut.arg) |->
                                        ~IsNa(detOut.arg[i]) /\ detOut.arg[i] # c]
                  /\ detOut.arg = baseline[1] =>
                        \A i \in 1..Len(detOut.arg) : ~detOut.value[i]

\* thresholds fit on [3, 3] flag the 1 of the later series [1, 3] only
C15_Witness ==
    /\ det # <<>>
    /\ det.sigma_level = 2
    /\ baseline = <<(<<Num(3), Num(3)>>)>>
    /\ det.thresholds.mean = Num(3)
    /\ det.thresholds.std = [sqrt_of |-> Num(0)]
    /\ detOut.kind = "return"
    /\ detOut.op = "detect"
    /\ detOut.arg = <<Num(1), Num(3)>>
    /\ detOut.value = <<TRUE, FALSE>>

-----------------------------------------------------------------------------
\* the test scenario: generate_report(test_data) on a fresh detector of
\* sigma level 2 has returned
TestScenarioRan ==
    /\ pc = "det_reported"
    /\ data_series = <<test_data>>
    /\ det.sigma_level = 2

(* C16, as claimed: in the test scenario generate_report flags no point:
   anomaly_indices is empty and anomaly_count is 0. *)
C16_NoPointFlagged ==
    TestScenarioRan =>
        /\ detOut.value.anomaly_indices = <<>>
        /\ detOut.value.anomaly_count = 0

(* C16, amended: in the test scenario (mean 149/9, sample variance
   28964/72) generate_report flags exactly the value -25 at index 6:
   anomaly_indices is [6] and anomaly_count is 1; 55 lies within the
   bounds. *)
C16_OnlyIndexSixFlagged ==
    TestScenarioRan =>
        /\ detOut.value.thresholds.mean = Rat(149, 9)
        /\ detOut.value.thresholds.std = [sqrt_of |-> Rat(28964, 72)]
        /\ detOut.value.anomaly_indices = <<6>>
        /\ detOut.value.anomaly_count = 1
        /\ detOut.value.total_samples = 9

C16_Witness ==
    /\ TestScenarioRan
    /\ detOut.value.anomaly_indices = <<6>>
    /\ detOut.value.anomaly_rate = Rat(1, 9)

-----------------------------------------------------------------------------
\* the statistics dict st is what the edge cases of series s call for
EdgeCaseStats(st, s) ==
    /\ Len(s) = 0 =>
          /\ st.total_missing = 0
          /\ st.missing_rate = Num(0)
          /\ st.gap_count = 0
          /\ st.max_gap_length = 0
          /\ st.gap_lengths = <<>>
    /\ NullCount(s) = 0 =>
          /\ st.gap_lengths = <<>>
          /\ st.missing_rate = Num(0)
    /\ (Len(s) >= 1 /\ NullCount(s) = Len(s)) =>
          /\ st.gap_lengths = <<Len(s)>>
          /\ st.gap_count = 1
          /\ st.missing_rate = Num(1)

(* C17: both gap-statistics functions return, without raising, on the
   degenerate inputs: an empty series gives total_missing 0, missing_rate 0,
   gap_count 0, max_gap_length 0 and an empty gap_lengths; a series without
   a null gives an empty gap_lengths and missing_rate 0; an entirely null
   series of length n >= 1 gives gap_lengths [n], one run, missing_rate 1. *)
C17_DegenerateStats ==
    /\ (stats.kind # "none" /\ HasColumn(df, column)) =>
          /\ stats.kind = "return"
          /\ EdgeCaseStats(stats.value, TargetIn)
    /\ (stats2.kind # "none") =>
          /\ stats2.kind = "return"
          /\ EdgeCaseStats(stats2.value, TargetOut)
    /\ (pc = "done" /\ HasColumn(gen.raw_df, column) /\ HasColumn(gen.cleaned_df, column)) =>
          /\ genOut.kind = "return"
          /\ EdgeCaseStats(genOut.value.raw_data, gen.raw_df.data[column])
          /\ EdgeCaseStats(genOut.value.cleaned_data, gen.cleaned_df.data[column])

\* both functions have analysed an empty column
C17_Witness ==
    /\ pc = "done"
    /\ HasColumn(df, column)
    /\ Len(TargetIn) = 0
    /\ stats.kind = "return"
    /\ stats.value.missing_rate = Num(0)
    /\ genOut.kind = "return"
    /\ genOut.value.raw_data.gap_lengths = <<>>

\* both functions have analysed an entirely null column
C17_WitnessAllNull ==
    /\ pc = "done"
    /\ TargetIn = <<NaN, NaN, NaN>>
    /\ stats.value.gap_lengths = <<3>>
    /\ genOut.kind = "return"
    /\ genOut.value.raw_data.missing_rate = Num(1)

-----------------------------------------------------------------------------
(* C18: get_missing_stats, linear_impute, advanced_impute and
   handle_missing_values never modify the dataset they are handed, for every
   method ('time' and 'seasonal' included): after the call the caller's
   dataset has the values, null positions, columns and index it had before. *)
C18_InputUnchanged == [][df' = df]_vars

\* the seasonal strategy has filled its working copy, and the 'time' method
\* would have moved the timestamps of this dataset into the index
C18_Witness ==
    /\ op = "advanced_impute"
    /\ method = "seasonal"
    /\ HasColumn(df, "timestamp")
    /\ df.ts_dtype = "object"
    /\ imputed.kind = "return"
    /\ NullCount(TargetIn) > 0
    /\ NullCount(TargetOut) = 0
    /\ linear_impute(df, column, max_gap, "time").value.index # df.index

-----------------------------------------------------------------------------
Sections == {"basic_stats", "missing_analysis", "outlier_analysis", "summary", "data_samples"}

\* the section a generate_* method is in charge of
SectionOf(o) ==
    IF o = "generate_basic_stats" THEN "basic_stats"
    ELSE IF o = "generate_missing_analysis" THEN "missing_analysis"
    ELSE IF o = "generate_outlier_analysis" THEN "outlier_analysis"
    ELSE "summary"

(* C19: when generate_full_report returns, the report holds exactly the five
   sections basic_stats, missing_analysis, outlier_analysis, summary and
   data_samples; a generate_* method called on its own writes or replaces
   its own section with what it returns and leaves every other section as
   it was. *)
C19_ReportSections ==
    [][ /\ (genOut'.op = "generate_full_report" /\ genOut'.kind = "return") =>
              /\ DOMAIN gen'.report = Sections
              /\ genOut'.value = gen'.report
        /\ (genOut'.op # "generate_full_report" /\ genOut'.kind = "return") =>
              /\ DOMAIN gen'.report = DOMAIN gen.report \cup {SectionOf(genOut'.op)}
              /\ gen'.report[SectionOf(genOut'.op)] = genOut'.value
              /\ \A k \in DOMAIN gen.report \ {SectionOf(genOut'.op)} :
                     gen'.report[k] = gen.report[k]
        /\ genOut'.kind = "raise" =>
              \A k \in DOMAIN gen.report \ {"basic_stats"} :
                  k \in DOMAIN gen'.report /\ gen'.report[k] = gen.report[k]
      ]_vars

\* a summary written before the outlier analysis is still there, unchanged,
\* next to the outlier analysis that has just been written
C19_Witness ==
    /\ pc = "gen_ready"
    /\ genOut.kind = "return"
    /\ genOut.op = "generate_outlier_analysis"
    /\ "detected_outliers" \in DOMAIN genOut.value
    /\ DOMAIN gen.report = {"summary", "outlier_analysis"}
    /\ gen.report["summary"].report_generated_at = "2026-01-01 00:00:01"
    /\ gen.report["summary"].quality_indicators = <<>>

\* a full report has been returned with its five sections
C19_WitnessFull ==
    /\ pc = "gen_ready"
    /\ genOut.kind = "return"
    /\ genOut.op = "generate_full_report"
    /\ DOMAIN gen.report = Sections
    /\ gen.report["data_samples"].raw_first_5 = <<[temperature |-> NaN], [temperature |-> Num(3)]>>

-----------------------------------------------------------------------------
(* C20: data-quality conditions are never exceptions: on every dataset that
   holds the target column, whatever its nulls and values (no null, all
   null, a single row, leading or trailing null runs, zero variance),
   get_missing_stats, linear_impute with method 'linear',
   ThreeSigmaDetector.generate_report and generate_full_report each return
   a result and none raises. *)
C20_NoExceptionOnData ==
    /\ stats.kind # "none" =>
          (stats.kind = "return" /\ "total_missing" \in DOMAIN stats.value)
    /\ imputed.kind # "none" =>
          (imputed.kind = "return" /\ HasColumn(imputed.value, column))
    /\ detOut.kind # "none" =>
          (detOut.kind = "return" /\ detOut.value.total_samples = Len(TargetIn))
    /\ genOut.kind # "none" =>
          (genOut.kind = "return" /\ DOMAIN genOut.value = Sections)
    /\ pc = "q_reported" => genOut.kind = "return"

\* the four calls have returned on an entirely null column
C20_Witness ==
    /\ pc = "q_reported"
    /\ TargetIn = <<NaN, NaN, NaN>>
    /\ stats.value.missing_rate = Num(1)
    /\ imputed.kind = "return"
    /\ detOut.value.anomaly_count = 0
    /\ genOut.kind = "return"
    /\ genOut.value["basic_stats"]["raw_data"]["mean"] = None

\* ... on a single row, and on a column of zero variance with a leading and
\* a trailing null
C20_WitnessSingleRow ==
    /\ pc = "q_reported"
    /\ TargetIn = <<Num(1)>>
    /\ genOut.kind = "return"
    /\ genOut.value["basic_stats"]["raw_data"]["std"] = [sqrt_of |-> NaN]

C20_WitnessZeroVariance ==
    /\ pc = "q_reported"
    /\ TargetIn = <<NaN, Num(3), NaN>>
    /\ TargetOut = <<NaN, Num(3), Num(3)>>
    /\ genOut.kind = "return"
    /\ genOut.value["missing_analysis"].summary.missing_fixed = 1

\* C21: load_weather_data raises when the path names no existing file, when
\* the name ends in neither .csv nor .xlsx, and when the file parses to zero
\* data rows (a header line alone included); it returns a dataset in no
\* such case
C21_LoaderFailsOnBadInput ==
    pc = "load_done" =>
        LET bad == \/ ~isfile(file)
                   \/ ~(endswith(file_path, <<".", "c", "s", "v">>)
                         \/ endswith(file_path, <<".", "x", "l", "s", "x">>))
                   \/ Len(file.lines) < 2
        IN  bad => loaded.kind = "raise"

\* C22: once the data is loaded, an exception in outlier detection,
\* imputation, normalization or report generation is caught inside its
\* stage and the script reaches the end of the final summary without an
\* unhandled exception; the run ends early only before or at the load
C22_StagesNeverAbort ==
    /\ ended.kind # "raise"
    /\ (ended = Exit(1) => "cleaned_df" \notin DOMAIN env /\ "outlier_info" \notin DOMAIN env)
    /\ (pc = "p_done" => ended = Exit(0))

-----------------------------------------------------------------------------
\* the completeness indicators line 201-205 computes from a missing analysis
completeness_of(missing_info) ==
    [completeness |->
        [raw         |-> RSub(Num(1), missing_info.raw_data.missing_rate),
         cleaned     |-> RSub(Num(1), missing_info.cleaned_data.missing_rate),
         improvement |-> missing_info.summary.improvement_percentage]]

(* C23: the report holds a missing analysis exactly when a call of
   generate_missing_analysis (on its own or inside generate_full_report) has
   returned on this generator; generate_data_quality_summary puts the
   completeness indicators raw = 1 - raw missing rate, cleaned = 1 - cleaned
   missing rate and improvement into the summary exactly when that analysis
   is there, and leaves the indicators empty otherwise; the summary that
   generate_full_report builds always holds completeness, computed from the
   missing analysis of the same call, and a full report that fails in its
   missing analysis has written basic_stats and nothing after it. *)
C23_CompletenessAfterMissingAnalysis ==
    [][ /\ "missing_analysis" \in DOMAIN gen'.report <=>
              \/ "missing_analysis" \in DOMAIN gen.report
              \/ /\ genOut'.op \in {"generate_missing_analysis", "generate_full_report"}
                 /\ genOut'.kind = "return"
        /\ genOut'.op = "generate_data_quality_summary" =>
              genOut'.value.quality_indicators =
                  IF "missing_analysis" \in DOMAIN gen.report
                  THEN completeness_of(gen.report["missing_analysis"])
                  ELSE <<>>
        /\ (genOut'.op = "generate_full_report" /\ genOut'.kind = "return") =>
              /\ genOut'.value["missing_analysis"] = generate_missing_analysis(gen, column).value
              /\ genOut'.value["summary"].quality_indicators =
                     completeness_of(genOut'.value["missing_analysis"])
        /\ (genOut'.op = "generate_full_report" /\ genOut'.kind = "raise") =>
              DOMAIN gen'.report = DOMAIN gen.report \cup {"basic_stats"}
      ]_vars

\* a summary asked for after a missing analysis of a half-null column holds
\* completeness 1/2 raw
C23_Witness ==
    /\ pc = "gen_ready"
    /\ genOut.kind = "return"
    /\ genOut.op = "generate_data_quality_summary"
    /\ DOMAIN gen.report = {"missing_analysis", "summary"}
    /\ genOut.value.quality_indicators.completeness.raw = Rat(1, 2)
    /\ gen.raw_df.data[column] = <<NaN, Num(3)>>

\* a full report on a fresh generator holds completeness in its summary
C23_WitnessFull ==
    /\ pc = "gen_ready"
    /\ genOut.kind = "return"
    /\ genOut.op = "generate_full_report"
    /\ gen.raw_df.data[column] = <<NaN, Num(3)>>
    /\ "completeness" \in DOMAIN genOut.value["summary"].quality_indicators

\* a summary asked for before any missing analysis holds no indicator
C23_WitnessWithout ==
    /\ pc = "gen_ready"
    /\ genOut.kind = "return"
    /\ genOut.op = "generate_data_quality_summary"
    /\ "missing_analysis" \notin DOMAIN gen.report
    /\ genOut.value.quality_indicators = <<>>

-----------------------------------------------------------------------------
(* C24: imputation changes only the target column: when linear_impute (any
   method) or advanced_impute (any strategy) returns, the returned dataset
   has the rows of the input in the same order under the same index, the
   same columns in the same order, and in every column other than the
   target the values of the input, also when the input has a column named
   'hour'. *)
C24_OnlyTargetColumnChanges ==
    (pc = "called" /\ op \in {"linear_impute", "advanced_impute"} /\ imputed.kind = "return") =>
        /\ imputed.value.nrows = df.nrows
        /\ imputed.value.index = df.index
        /\ imputed.value.columns = df.columns
        /\ DOMAIN imputed.value.data = DOMAIN df.data
        /\ \A c \in DOMAIN df.data \ {column} : imputed.value.data[c] = df.data[c]

-----------------------------------------------------------------------------
(* C25: in the pipeline script the raw dataset is never changed after it is
   loaded: at every point after the load raw_df refers to a dataset equal,
   value for value, to the one the loader returned (so the report stage is
   handed that dataset); cleaned_df, once bound, is a different object, the
   only one imputation and normalization write; and the outlier
   information bound before cleaned_df exists is the one computed from the
   loaded dataset. *)
C25_RawNeverChanged ==
    "raw_df" \in DOMAIN env =>
        /\ loaded.kind = "return"
        /\ heap[env["raw_df"]] = loaded.value
        /\ "cleaned_df" \in DOMAIN env =>
              /\ env["cleaned_df"] # env["raw_df"]
              /\ "outlier_info" \in DOMAIN env
        /\ "outlier_info" \in DOMAIN env =>
              LET r == three_sigma_detect(loaded.value, env["numeric_cols"], 3)
              IN  env["outlier_info"] = IF r.kind = "return" THEN r.value ELSE <<>>

\* the script has ended after filling a null and normalizing: the cleaned
\* dataset differs from the raw one, which still holds its null
C25_Witness ==
    /\ pc = "p_done"
    /\ ended = Exit(0)
    /\ env["fixed_count"] > 0
    /\ \E c \in DOMAIN heap[env["raw_df"]].data :
           /\ \E i \in 1..heap[env["raw_df"]].nrows : IsNa(heap[env["raw_df"]].data[c][i])
           /\ \A i \in 1..heap[env["cleaned_df"]].nrows : ~IsNa(heap[env["cleaned_df"]].data[c][i])
    /\ heap[env["raw_df"]] = loaded.value
    /\ "report" \in DOMAIN env

-----------------------------------------------------------------------------
(* C26: the two gap statistics agree: called on the same dataset and
   column, imputation.get_missing_stats and
   QualityReportGenerator._get_missing_stats both return, and return the
   same dict: the same total_missing, missing_rate, missing_percentage,
   gap_count, max_gap_length, avg_gap_length and gap_lengths when the
   column is there (an empty dataset included), the same error entry when
   it is absent. *)
C26_GapStatsAgree ==
    pc = "stats_done" =>
        /\ stats.kind = "return"
        /\ stats2.kind = "return"
        /\ stats2.value = stats.value
        /\ DOMAIN stats.value =
               IF HasColumn(df, column)
               THEN {"total_missing", "missing_rate", "missing_percentage", "gap_count",
                     "max_gap_length", "avg_gap_length", "gap_lengths"}
               ELSE {"error"}

\* both have returned the all-zero statistics on an empty dataset
C26_Witness ==
    /\ pc = "stats_done"
    /\ HasColumn(df, column)
    /\ df.nrows = 0
    /\ stats2.value.missing_rate = Num(0)
    /\ stats.value.missing_percentage = "0.00%"

\* ... the error entry on an absent column
C26_WitnessAbsent ==
    /\ pc = "stats_done"
    /\ ~HasColumn(df, column)
    /\ "error" \in DOMAIN stats.value
    /\ "error" \in DOMAIN stats2.value

\* ... and two gaps, of one and three rows, on the twenty-row example
C26_WitnessGaps ==
    /\ pc = "stats_done"
    /\ column = "temperature"
    /\ HasColumn(df, column)
    /\ df.data[column] = Example4
    /\ stats2.value.gap_lengths = <<3, 1>>
    /\ stats.value.avg_gap_length = Num(2)
    /\ stats.value.missing_percentage = "20.00%"

====
